---------------------------- MODULE Spec2Model ----------------------------
(***************************************************************************)
(* ContractMind backend: the chat endpoint (intent classification, hub     *)
(* read path), the agent look-ups of BlockchainService, the receipt event  *)
(* extraction and the registration confirmation with its agent cache.      *)
(*                                                                         *)
(* Strings are sequences of one-character strings, byte strings are        *)
(* sequences of integers 0..255.  One HTTP request is handled at a time:   *)
(* Receive delivers it, the handler's action runs the whole handler, Reply *)
(* returns the response.                                                   *)
(***************************************************************************)
EXTENDS Integers, Sequences, FiniteSets, TLC

VARIABLES
    registry,      \* on-chain AgentRegistry: 32-byte id -> agent struct
    receipts,      \* the node's receipts: tx hash -> receipt or None
    agents_cache,  \* table agents_cache: agent_id (string) -> row
    req,           \* the request being handled
    action,        \* parsed_intent.action of the request being handled
    op,            \* the read function the chat endpoint resolved
    calls,         \* node, hub and database calls the handler has made
    resp,          \* the handler's response
    workers,       \* confirmations running side by side: worker -> its position
    waited         \* seconds the request being handled has waited for a receipt

vars == <<registry, receipts, agents_cache, req, action, op, calls, resp, workers,
          waited>>

(***************************************************************************)
(* Bounds of the model                                                     *)
(***************************************************************************)
MaxNameLen == 33       \* plain-name identifiers "aa...a" of 0..MaxNameLen characters
MaxHexDigits == 65     \* hex identifiers "0x" + 0..MaxHexDigits digits
MaxMessageLen == 12    \* characters of a chat message
MaxLogs == 3           \* logs of a receipt

(***************************************************************************)
(* Python values                                                           *)
(***************************************************************************)
None == [some |-> FALSE]
Some(v) == [some |-> TRUE, val |-> v]

Rep(c, n) == [i \in 1..n |-> c]

Min(a, b) == IF a < b THEN a ELSE b

InSeq(s, c) == \E i \in 1..Len(s) : s[i] = c

IndexOf(s, c) == CHOOSE i \in 1..Len(s) : s[i] = c

Digits == <<"0", "1", "2", "3", "4", "5", "6", "7", "8", "9">>

UpperChars ==
    <<"A", "B", "C", "D", "E", "F", "G", "H", "I", "J", "K", "L", "M",
      "N", "O", "P", "Q", "R", "S", "T", "U", "V", "W", "X", "Y", "Z">>

LowerChars ==
    <<"a", "b", "c", "d", "e", "f", "g", "h", "i", "j", "k", "l", "m",
      "n", "o", "p", "q", "r", "s", "t", "u", "v", "w", "x", "y", "z">>

\* The one non-ASCII character of the model (U+00E9, two bytes in UTF-8).
EAcute == "U+00E9"

\* str.lower() on one character.
LowerChar(c) == IF InSeq(UpperChars, c) THEN LowerChars[IndexOf(UpperChars, c)] ELSE c

\* str.lower()
lower(s) == [i \in 1..Len(s) |-> LowerChar(s[i])]

\* Python's `k in s` on strings: k is a substring of s.
Contains(s, k) == \E i \in 0..(Len(s) - Len(k)) : SubSeq(s, i + 1, i + Len(k)) = k

\* str.startswith("0x")
startswith_0x(s) == Len(s) >= 2 /\ s[1] = "0" /\ s[2] = "x"

\* ord() of an ASCII character of the model's alphabet.
Ord(c) ==
    IF InSeq(Digits, c) THEN 47 + IndexOf(Digits, c)
    ELSE IF InSeq(UpperChars, c) THEN 64 + IndexOf(UpperChars, c)
    ELSE IF InSeq(LowerChars, c) THEN 96 + IndexOf(LowerChars, c)
    ELSE IF c = "-" THEN 45
    ELSE 32

\* The UTF-8 bytes of one character.
Utf8(c) == IF c = EAcute THEN <<195, 169>> ELSE <<Ord(c)>>

\* str.encode(): the UTF-8 bytes of a string.
RECURSIVE encode_str(_)
encode_str(s) == IF s = <<>> THEN <<>> ELSE Utf8(Head(s)) \o encode_str(Tail(s))

IsHexChar(c) ==
    \/ InSeq(Digits, c)
    \/ InSeq(SubSeq(LowerChars, 1, 6), c)
    \/ InSeq(SubSeq(UpperChars, 1, 6), c)

HexVal(c) ==
    IF InSeq(Digits, c) THEN IndexOf(Digits, c) - 1
    ELSE 9 + IndexOf(LowerChars, LowerChar(c))

\* bytes.fromhex(s): pairs of hex digits; ValueError ([ok |-> FALSE]) on an odd
\* number of digits or a character that is no hex digit.
fromhex(s) ==
    IF Len(s) % 2 = 0 /\ \A i \in 1..Len(s) : IsHexChar(s[i])
    THEN [ok |-> TRUE,
          bytes |-> [i \in 1..(Len(s) \div 2) |->
                        16 * HexVal(s[2 * i - 1]) + HexVal(s[2 * i])]]
    ELSE [ok |-> FALSE, bytes |-> <<>>]

\* bytes.ljust(n, fill)
ljust(b, n, fill) == IF Len(b) >= n THEN b ELSE b \o Rep(fill, n - Len(b))

\* b[:n]
Take(b, n) == SubSeq(b, 1, Min(n, Len(b)))

\* bytes.hex(): two lower-case hex digits per byte.
HexChars == Digits \o SubSeq(LowerChars, 1, 6)

RECURSIVE hex(_)
hex(b) ==
    IF b = <<>> THEN <<>>
    ELSE <<HexChars[(Head(b) \div 16) + 1], HexChars[(Head(b) % 16) + 1]>> \o hex(Tail(b))

\* str(n) of a non-negative integer: its decimal digits.
RECURSIVE str_int(_)
str_int(n) == IF n < 10 THEN <<Digits[n + 1]>> ELSE str_int(n \div 10) \o <<Digits[(n % 10) + 1]>>

(***************************************************************************)
(* Agent identifiers                                                       *)
(***************************************************************************)
IdLen == 32

\* The width the code pads and truncates plain names to (a bytes32).
\* A hex string is converted verbatim, whatever its length.
agent_id_bytes(agent_id) ==
    IF startswith_0x(agent_id)
    THEN fromhex(SubSeq(agent_id, 3, Len(agent_id)))
    ELSE [ok |-> TRUE, bytes |-> Take(ljust(encode_str(agent_id), IdLen, 0), IdLen)]

Erc20_2 == <<"e", "r", "c", "2", "0", "-", "2">>

Ghost == <<"g", "h", "o", "s", "t">>

Hex0x == <<"0", "x">>

\* "0xabab...ab": the hex form of a 32-byte identifier.
HexIdB == Hex0x \o [i \in 1..(2 * IdLen) |-> IF i % 2 = 1 THEN "a" ELSE "b"]

ShortHexId == Hex0x \o <<"1", "2">>

IdA == agent_id_bytes(Erc20_2).bytes

IdB == agent_id_bytes(HexIdB).bytes

\* Identifier strings a look-up is asked for.
AgentIdInputs ==
    {Rep("a", n) : n \in 0..MaxNameLen}
        \cup {Hex0x \o Rep("a", n) : n \in 0..MaxHexDigits}
        \cup {Erc20_2, Ghost, HexIdB, ShortHexId,
              Hex0x \o <<"z", "z">>,
              Rep("a", IdLen - 1) \o <<EAcute>>}

(***************************************************************************)
(* The chain: AgentRegistry                                                *)
(***************************************************************************)
OwnerA == "0xOwnerA"
OwnerB == "0xOwnerB"
TargetA == "0xTargetA"
TargetB == "0xTargetB"
ZeroAddress == "0x0000000000000000000000000000000000000000"

AgentA ==
    [owner |-> OwnerA, targetContract |-> TargetA, name |-> Erc20_2,
     configIPFS |-> "ipfsA", active |-> TRUE, createdAt |-> 1]

AgentB ==
    [owner |-> OwnerB, targetContract |-> TargetB, name |-> <<"b">>,
     configIPFS |-> "ipfsB", active |-> FALSE, createdAt |-> 0]

\* What a mapping getter returns for an identifier that was never registered.
ZeroAgent ==
    [owner |-> ZeroAddress, targetContract |-> ZeroAddress, name |-> <<>>,
     configIPFS |-> "", active |-> FALSE, createdAt |-> 0]

\* A bytes32 argument as web3 passes it on: 32 bytes go through; a shorter
\* value is rejected by a strict build and right-padded by a lenient one; a
\* longer value is always rejected.
Bytes32Args(b) ==
    IF Len(b) = IdLen THEN {b}
    ELSE IF Len(b) < IdLen THEN {ljust(b, IdLen, 0)}
    ELSE {}

\* registry.functions.getAgent(b).call(): the node call can fail (node down,
\* revert for an unknown agent, rejected argument); otherwise it returns the
\* stored struct, or the zero struct for an identifier never registered.
getAgent_call(reg, b) ==
    {[ok |-> FALSE]}
        \cup {[ok |-> TRUE, tuple |-> IF a \in DOMAIN reg THEN reg[a] ELSE ZeroAgent] :
                a \in Bytes32Args(b)}

\* registry.functions.isAgentActive(b).call()
isAgentActive_call(reg, b) ==
    {[ok |-> FALSE]}
        \cup {[ok |-> TRUE, value |-> IF a \in DOMAIN reg THEN reg[a].active ELSE FALSE] :
                a \in Bytes32Args(b)}

(***************************************************************************)
(* BlockchainService look-ups.  Each is the set of the outcomes the call   *)
(* can have: the calls made and the value returned.                        *)
(***************************************************************************)
AgentResponse(agent_id, t) ==
    [id |-> agent_id, target_address |-> t.targetContract, owner |-> t.owner,
     name |-> t.name, config_ipfs |-> t.configIPFS, active |-> t.active,
     created_at |-> IF t.createdAt # 0 THEN Some(t.createdAt) ELSE None]

\* BlockchainService.get_agent: every exception ends in `return None`.
get_agent(reg, agent_id) ==
    LET n == agent_id_bytes(agent_id) IN
    {[calls |-> <<>>, result |-> None]}          \* get_contract raised
        \cup
        (IF ~n.ok THEN {[calls |-> <<>>, result |-> None]}
         ELSE {[calls |-> <<[fn |-> "getAgent", id |-> n.bytes, ok |-> o.ok,
                             ret |-> IF o.ok THEN Some(o.tuple) ELSE None]>>,
                result |-> IF o.ok THEN Some(AgentResponse(agent_id, o.tuple)) ELSE None] :
                  o \in getAgent_call(reg, n.bytes)})

\* BlockchainService.is_agent_active: every exception ends in `return False`.
is_agent_active(reg, agent_id) ==
    LET n == agent_id_bytes(agent_id) IN
    {[calls |-> <<>>, result |-> FALSE]}
        \cup
        (IF ~n.ok THEN {[calls |-> <<>>, result |-> FALSE]}
         ELSE {[calls |-> <<[fn |-> "isAgentActive", id |-> n.bytes, ok |-> o.ok,
                             ret |-> IF o.ok THEN Some(o.value) ELSE None]>>,
                result |-> IF o.ok THEN o.value ELSE FALSE] :
                  o \in isAgentActive_call(reg, n.bytes)})


(***************************************************************************)
(* Words of the chat endpoint                                              *)
(***************************************************************************)
W_stake == <<"s", "t", "a", "k", "e">>

W_withdraw == <<"w", "i", "t", "h", "d", "r", "a", "w">>

W_claim == <<"c", "l", "a", "i", "m">>

W_swap == <<"s", "w", "a", "p">>

W_lend == <<"l", "e", "n", "d">>

W_borrow == <<"b", "o", "r", "r", "o", "w">>

W_balance == <<"b", "a", "l", "a", "n", "c", "e">>

W_balanceof == <<"b", "a", "l", "a", "n", "c", "e", "o", "f">>

W_pending == <<"p", "e", "n", "d", "i", "n", "g">>

W_rewards == <<"r", "e", "w", "a", "r", "d", "s">>

W_pendingrewards == <<"p", "e", "n", "d", "i", "n", "g", "r", "e", "w", "a", "r", "d", "s">>

W_apy == <<"a", "p", "y">>

W_getcurrentapy == <<"g", "e", "t", "c", "u", "r", "r", "e", "n", "t", "a", "p", "y">>

W_tvl == <<"t", "v", "l">>

W_gettvl == <<"g", "e", "t", "t", "v", "l">>

W_stake_info == <<"s", "t", "a", "k", "e", " ", "i", "n", "f", "o">>

W_stakeinfo == <<"s", "t", "a", "k", "e", "i", "n", "f", "o">>

W_getstakeinfo == <<"g", "e", "t", "s", "t", "a", "k", "e", "i", "n", "f", "o">>

\* Words a chat message is made of (mixed case; "Balances" holds "balance"
\* inside a longer word; "stake" and "info" make "stake info" when adjacent).
Vocabulary ==
    {<<"B", "a", "l", "a", "n", "c", "e", "s">>,
     <<"p", "e", "n", "d", "i", "n", "g">>,
     <<"R", "E", "W", "A", "R", "D", "S">>,
     <<"A", "p", "y">>,
     <<"t", "v", "l">>,
     <<"s", "t", "a", "k", "e">>,
     <<"i", "n", "f", "o">>,
     <<"S", "t", "a", "k", "e", "I", "n", "f", "o">>}

\* Messages of at most n characters: words joined by single spaces.
RECURSIVE MessagesOf(_)
MessagesOf(n) ==
    {<<>>}
        \cup {v \in Vocabulary : Len(v) <= n}
        \cup UNION {{v \o <<" ">> \o m : m \in MessagesOf(n - Len(v) - 1) \ {<<>>}} :
                      v \in {x \in Vocabulary : Len(x) + 2 <= n}}

Messages == MessagesOf(MaxMessageLen)

\* Action labels chat_service.parse_message can put in parsed_intent.action.
ParsedActions ==
    {<<>>,
     <<"b", "a", "l", "a", "n", "c", "e">>,
     <<"B", "a", "l", "a", "n", "c", "e", "O", "f">>,
     <<"p", "e", "n", "d", "i", "n", "g", "R", "e", "w", "a", "r", "d", "s">>,
     <<"g", "e", "t", "C", "u", "r", "r", "e", "n", "t", "A", "P", "Y">>,
     <<"A", "P", "Y">>,
     <<"g", "e", "t", "T", "V", "L">>,
     <<"t", "v", "l">>,
     <<"g", "e", "t", "S", "t", "a", "k", "e", "I", "n", "f", "o">>,
     <<"r", "e", "w", "a", "r", "d", "s">>,
     <<"q", "u", "e", "r", "y">>,
     <<"S", "t", "a", "k", "e">>,
     <<"w", "i", "t", "h", "d", "r", "a", "w">>,
     <<"C", "l", "a", "i", "m">>,
     <<"s", "w", "a", "p">>,
     <<"l", "e", "n", "d">>,
     <<"B", "O", "R", "R", "O", "W">>}

(***************************************************************************)
(* The chat endpoint: POST /{agent_id}/message                             *)
(***************************************************************************)
HttpError(code, detail) == [kind |-> "error", status |-> code, detail |-> detail]

\* chat.py: write_actions
write_actions == {W_stake, W_withdraw, W_claim, W_swap, W_lend, W_borrow}

\* Mutant: the label is compared without lower-casing it.
requires_tx_cased(parsed_action) == parsed_action \in write_actions

\* chat.py: requires_tx
requires_tx(parsed_action) == lower(parsed_action) \in write_actions

NoFn == "None"

\* Mutant: the rewards rule is tried before the balance rule.
detect_read_function_reordered(msg_lower, action_lower, user_address) ==
    IF \/ Contains(msg_lower, W_pending)
       \/ Contains(msg_lower, W_rewards)
       \/ action_lower \in {W_pendingrewards}
    THEN [fn |-> "pendingRewards(address)", arg_types |-> <<"address">>,
          args |-> <<user_address>>, out_types |-> <<"uint256">>,
          data_keys |-> <<"rewards">>]
    ELSE IF Contains(msg_lower, W_balance) \/ action_lower \in {W_balance, W_balanceof}
    THEN [fn |-> "balanceOf(address)", arg_types |-> <<"address">>,
          args |-> <<user_address>>, out_types |-> <<"uint256">>,
          data_keys |-> <<"balance">>]
    ELSE IF Contains(msg_lower, W_apy) \/ action_lower \in {W_getcurrentapy, W_apy}
    THEN [fn |-> "getCurrentAPY()", arg_types |-> <<>>, args |-> <<>>,
          out_types |-> <<"uint256">>, data_keys |-> <<"apy">>]
    ELSE IF Contains(msg_lower, W_tvl) \/ action_lower \in {W_gettvl, W_tvl}
    THEN [fn |-> "getTVL()", arg_types |-> <<>>, args |-> <<>>,
          out_types |-> <<"uint256">>, data_keys |-> <<"tvl">>]
    ELSE IF \/ Contains(msg_lower, W_stake_info)
            \/ Contains(msg_lower, W_stakeinfo)
            \/ action_lower \in {W_getstakeinfo}
    THEN [fn |-> "getStakeInfo(address)", arg_types |-> <<"address">>,
          args |-> <<user_address>>,
          out_types |-> <<"uint256", "uint256", "uint256", "uint256">>,
          data_keys |-> <<"stakedAmount", "rewards", "stakingDuration", "apy">>]
    ELSE [fn |-> NoFn, arg_types |-> <<>>, args |-> <<>>, out_types |-> <<>>,
          data_keys |-> <<>>]

\* Mutant: the label "balanceof" is missing from the balance rule.
detect_read_function_nolabel(msg_lower, action_lower, user_address) ==
    IF Contains(msg_lower, W_balance) \/ action_lower \in {W_balance}
    THEN [fn |-> "balanceOf(address)", arg_types |-> <<"address">>,
          args |-> <<user_address>>, out_types |-> <<"uint256">>,
          data_keys |-> <<"balance">>]
    ELSE IF \/ Contains(msg_lower, W_pending)
            \/ Contains(msg_lower, W_rewards)
            \/ action_lower \in {W_pendingrewards}
    THEN [fn |-> "pendingRewards(address)", arg_types |-> <<"address">>,
          args |-> <<user_address>>, out_types |-> <<"uint256">>,
          data_keys |-> <<"rewards">>]
    ELSE IF Contains(msg_lower, W_apy) \/ action_lower \in {W_getcurrentapy, W_apy}
    THEN [fn |-> "getCurrentAPY()", arg_types |-> <<>>, args |-> <<>>,
          out_types |-> <<"uint256">>, data_keys |-> <<"apy">>]
    ELSE IF Contains(msg_lower, W_tvl) \/ action_lower \in {W_gettvl, W_tvl}
    THEN [fn |-> "getTVL()", arg_types |-> <<>>, args |-> <<>>,
          out_types |-> <<"uint256">>, data_keys |-> <<"tvl">>]
    ELSE IF \/ Contains(msg_lower, W_stake_info)
            \/ Contains(msg_lower, W_stakeinfo)
            \/ action_lower \in {W_getstakeinfo}
    THEN [fn |-> "getStakeInfo(address)", arg_types |-> <<"address">>,
          args |-> <<user_address>>,
          out_types |-> <<"uint256", "uint256", "uint256", "uint256">>,
          data_keys |-> <<"stakedAmount", "rewards", "stakingDuration", "apy">>]
    ELSE [fn |-> NoFn, arg_types |-> <<>>, args |-> <<>>, out_types |-> <<>>,
          data_keys |-> <<>>]

\* Mutant: an unmatched query falls back to a guessed function.
detect_read_function_guess(msg_lower, action_lower, user_address) ==
    IF Contains(msg_lower, W_balance) \/ action_lower \in {W_balance, W_balanceof}
    THEN [fn |-> "balanceOf(address)", arg_types |-> <<"address">>,
          args |-> <<user_address>>, out_types |-> <<"uint256">>,
          data_keys |-> <<"balance">>]
    ELSE IF \/ Contains(msg_lower, W_pending)
            \/ Contains(msg_lower, W_rewards)
            \/ action_lower \in {W_pendingrewards}
    THEN [fn |-> "pendingRewards(address)", arg_types |-> <<"address">>,
          args |-> <<user_address>>, out_types |-> <<"uint256">>,
          data_keys |-> <<"rewards">>]
    ELSE IF Contains(msg_lower, W_apy) \/ action_lower \in {W_getcurrentapy, W_apy}
    THEN [fn |-> "getCurrentAPY()", arg_types |-> <<>>, args |-> <<>>,
          out_types |-> <<"uint256">>, data_keys |-> <<"apy">>]
    ELSE IF Contains(msg_lower, W_tvl) \/ action_lower \in {W_gettvl, W_tvl}
    THEN [fn |-> "getTVL()", arg_types |-> <<>>, args |-> <<>>,
          out_types |-> <<"uint256">>, data_keys |-> <<"tvl">>]
    ELSE IF \/ Contains(msg_lower, W_stake_info)
            \/ Contains(msg_lower, W_stakeinfo)
            \/ action_lower \in {W_getstakeinfo}
    THEN [fn |-> "getStakeInfo(address)", arg_types |-> <<"address">>,
          args |-> <<user_address>>,
          out_types |-> <<"uint256", "uint256", "uint256", "uint256">>,
          data_keys |-> <<"stakedAmount", "rewards", "stakingDuration", "apy">>]
    ELSE [fn |-> "getTVL()", arg_types |-> <<>>, args |-> <<>>,
          out_types |-> <<"uint256">>, data_keys |-> <<"tvl">>]

\* chat.py step 2: the if/elif chain that picks the read function and its
\* argument binding, return types and data keys.
detect_read_function(msg_lower, action_lower, user_address) ==
    IF Contains(msg_lower, W_balance) \/ action_lower \in {W_balance, W_balanceof}
    THEN [fn |-> "balanceOf(address)", arg_types |-> <<"address">>,
          args |-> <<user_address>>, out_types |-> <<"uint256">>,
          data_keys |-> <<"balance">>]
    ELSE IF \/ Contains(msg_lower, W_pending)
            \/ Contains(msg_lower, W_rewards)
            \/ action_lower \in {W_pendingrewards}
    THEN [fn |-> "pendingRewards(address)", arg_types |-> <<"address">>,
          args |-> <<user_address>>, out_types |-> <<"uint256">>,
          data_keys |-> <<"rewards">>]
    ELSE IF Contains(msg_lower, W_apy) \/ action_lower \in {W_getcurrentapy, W_apy}
    THEN [fn |-> "getCurrentAPY()", arg_types |-> <<>>, args |-> <<>>,
          out_types |-> <<"uint256">>, data_keys |-> <<"apy">>]
    ELSE IF Contains(msg_lower, W_tvl) \/ action_lower \in {W_gettvl, W_tvl}
    THEN [fn |-> "getTVL()", arg_types |-> <<>>, args |-> <<>>,
          out_types |-> <<"uint256">>, data_keys |-> <<"tvl">>]
    ELSE IF \/ Contains(msg_lower, W_stake_info)
            \/ Contains(msg_lower, W_stakeinfo)
            \/ action_lower \in {W_getstakeinfo}
    THEN [fn |-> "getStakeInfo(address)", arg_types |-> <<"address">>,
          args |-> <<user_address>>,
          out_types |-> <<"uint256", "uint256", "uint256", "uint256">>,
          data_keys |-> <<"stakedAmount", "rewards", "stakingDuration", "apy">>]
    ELSE [fn |-> NoFn, arg_types |-> <<>>, args |-> <<>>, out_types |-> <<>>,
          data_keys |-> <<>>]

\* Web3.keccak(text=sig)[:4] of the signatures the endpoint knows.
selector(sig) ==
    CASE sig = "balanceOf(address)" -> <<112, 160, 130, 49>>
      [] sig = "pendingRewards(address)" -> <<49, 215, 162, 98>>
      [] sig = "getCurrentAPY()" -> <<150, 44, 164, 150>>
      [] sig = "getTVL()" -> <<151, 179, 252, 170>>
      [] sig = "getStakeInfo(address)" -> <<195, 69, 49, 83>>

AddressLen == 20

WordLen == 32

\* A caller address string as the ABI codec reads it: "0x" and 40 hex digits.
address_bytes(a) ==
    IF startswith_0x(a)
    THEN LET h == fromhex(SubSeq(a, 3, Len(a))) IN
         [ok |-> h.ok /\ Len(h.bytes) = AddressLen, bytes |-> h.bytes]
    ELSE [ok |-> FALSE, bytes |-> <<>>]

\* eth_abi.encode(arg_types, args): one left-padded 32-byte word per address;
\* raises on a value that is no address.
encode(arg_types, args) ==
    IF arg_types = <<>> THEN [ok |-> TRUE, bytes |-> <<>>]
    ELSE LET a == address_bytes(args[1]) IN
         [ok |-> a.ok, bytes |-> Rep(0, WordLen - AddressLen) \o a.bytes]

\* eth_abi.decode(out_types, raw): raw is the returned data as 32-byte words
\* (uint256 values); it fails when raw is shorter than the declared types.
decode(out_types, raw) ==
    IF Len(raw) >= Len(out_types)
    THEN [ok |-> TRUE, values |-> SubSeq(raw, 1, Len(out_types))]
    ELSE [ok |-> FALSE, values |-> <<>>]

UserA == Hex0x \o Rep("a", 2 * AddressLen)

UserB == Hex0x \o Rep("b", 2 * AddressLen)

BadUser == <<"b", "o", "b">>

Users == {UserA, UserB, BadUser}

\* Data a target can return through the hub: 0, 1 or 4 words.
RawReturns == {<<>>, <<1500>>, <<1500, 25, 86400, 12>>}

\* What the node says when it rejects a call.
NodeReasons == {"execution reverted", "connection timed out"}

\* hub.functions.queryTarget(id, target, call_data).call({"from": user}): the
\* node rejects the call (always when the sender is no address), or returns
\* the target's data.
queryTarget_call(id, target, call_data, user_address) ==
    {[ok |-> FALSE, reason |-> r] : r \in NodeReasons}
        \cup (IF address_bytes(user_address).ok /\ Bytes32Args(id) # {}
              THEN {[ok |-> TRUE, raw |-> r] : r \in RawReturns}
              ELSE {})

\* Mutant: the keys are bound to the decoded values from the last position
\* backwards.
build_data_reversed(data_keys, decoded) ==
    [i \in 1..Len(data_keys) |->
        [key |-> data_keys[i],
         value |-> IF i <= Len(decoded)
                   THEN Some(str_int(decoded[Len(decoded) + 1 - i])) ELSE None]]

\* chat.py step 6: data[key] = str(decoded[i]), None past the decoded values.
build_data(data_keys, decoded) ==
    [i \in 1..Len(data_keys) |->
        [key |-> data_keys[i],
         value |-> IF i <= Len(decoded) THEN Some(str_int(decoded[i])) ELSE None]]

DocChatQueryResponse(text, data) ==
    [kind |-> "query", success |-> TRUE, response |-> text,
     requiresTransaction |-> FALSE, data |-> data]

DocChatTxResponse(tx_obj) ==
    [kind |-> "tx", success |-> TRUE, requiresTransaction |-> TRUE,
     transaction |-> tx_obj]

HubAddress == "0xHub"

\* execution_service.prepare_transaction: the prepared transaction, or an
\* unexpected failure that propagates.
prepare_transaction(parsed_action, user_address) ==
    {[ok |-> FALSE]}
        \cup {[ok |-> TRUE,
               tx |-> [to |-> HubAddress, data |-> <<"execute", lower(parsed_action)>>,
                       value |-> "0x0", gas |-> 370000,
                       description |-> <<"Prepared", parsed_action>>]]}

\* The write path (chat.py from "Prepare transaction preview").
write_path(parsed_action, user_address) ==
    {[op |-> None, calls |-> <<>>,
      resp |-> IF p.ok
               THEN DocChatTxResponse(
                        [to |-> p.tx.to, data |-> p.tx.data, value |-> p.tx.value,
                         gasEstimate |-> str_int(p.tx.gas),
                         explanation |-> p.tx.description,
                         functionName |-> lower(parsed_action),
                         warnings |-> <<"Gas fees will apply",
                                        "Ensure you have sufficient balance and allowance">>])
               ELSE HttpError(500, "internal")] :
        p \in prepare_transaction(parsed_action, user_address)}

\* f"Query failed: {e}": the node's reason behind a fixed prefix.
query_failed(reason) ==
    CASE reason = "execution reverted" -> "Query failed: execution reverted"
      [] reason = "connection timed out" -> "Query failed: connection timed out"

\* What the call left in the handler's trace: the returned data, or the
\* node's reason.
query_ret(q) == IF q.ok THEN [raw |-> q.raw] ELSE [reason |-> q.reason]

\* Mutant: neither failure is caught where it happens; both reach the
\* handler's last except.
read_response_uncaught(d, q) ==
    IF ~q.ok THEN HttpError(500, "internal")
    ELSE LET dec == decode(d.out_types, q.raw) IN
         IF ~dec.ok THEN HttpError(500, "internal")
         ELSE DocChatQueryResponse(<<"Fetched", d.data_keys, "from contract.">>,
                                   Some(build_data(d.data_keys, dec.values)))

\* Steps 4 to 6 once queryTarget has returned or raised: "Query failed" with
\* the node's reason, "Decode failed", or the data.
read_response(d, q) ==
    IF ~q.ok THEN HttpError(400, query_failed(q.reason))
    ELSE LET dec == decode(d.out_types, q.raw) IN
         IF ~dec.ok THEN HttpError(500, "Decode failed")
         ELSE DocChatQueryResponse(<<"Fetched", d.data_keys, "from contract.">>,
                                   Some(build_data(d.data_keys, dec.values)))

\* contract.functions.trustedHub().call() on a target: a hub-aware contract
\* answers with its hub; a contract without the function reverts; the node
\* can fail.
trustedHub_call(address) ==
    {[ok |-> FALSE]}
        \cup (IF address = TargetA THEN {[ok |-> TRUE, hub_address |-> HubAddress]}
              ELSE {})

\* BlockchainService.detect_contract_type: every answer it can give.
detect_contract_type(address) ==
    {IF r.ok /\ r.hub_address # ZeroAddress THEN "hub-aware" ELSE "regular" :
        r \in trustedHub_call(address)}

\* Mutant: the read is routed by the target's type: through the hub for a
\* hub-aware target, straight to the target otherwise.
query_outcomes_routed(agent_id, target, d, user_address, agent_calls) ==
    LET enc == encode(d.arg_types, d.args)
        call_data == selector(d.fn) \o enc.bytes
        n == agent_id_bytes(agent_id)
        hub_aware == "hub-aware" \in detect_contract_type(target)
    IN  IF ~enc.ok \/ ~n.ok
        THEN {[op |-> Some(d), calls |-> agent_calls, resp |-> HttpError(500, "internal")]}
        ELSE {[op |-> Some(d), calls |-> agent_calls,
               resp |-> HttpError(500, "internal")]}
             \cup
             {[op |-> Some(d),
               calls |-> Append(agent_calls,
                                IF hub_aware
                                THEN [fn |-> "queryTarget", id |-> n.bytes,
                                      target |-> target, data |-> call_data,
                                      from |-> user_address, ok |-> q.ok,
                                 ret |-> query_ret(q)]
                                ELSE [fn |-> "call_target", id |-> n.bytes,
                                      target |-> target, data |-> call_data,
                                      from |-> user_address, ok |-> q.ok,
                                 ret |-> query_ret(q)]),
               resp |-> read_response(d, q)] :
                q \in queryTarget_call(n.bytes, target, call_data, user_address)}

\* Steps 3 to 6 of the read path, once the agent and the function are known.
query_outcomes(agent_id, target, d, user_address, agent_calls) ==
    LET enc == encode(d.arg_types, d.args)
        call_data == selector(d.fn) \o enc.bytes
        n == agent_id_bytes(agent_id)
    IN  IF ~enc.ok \/ ~n.ok
        THEN {[op |-> Some(d), calls |-> agent_calls, resp |-> HttpError(500, "internal")]}
        ELSE {[op |-> Some(d), calls |-> agent_calls,
               resp |-> HttpError(500, "internal")]}      \* hub contract not loaded
             \cup
             {[op |-> Some(d),
               calls |-> Append(agent_calls,
                                [fn |-> "queryTarget", id |-> n.bytes, target |-> target,
                                 data |-> call_data, from |-> user_address, ok |-> q.ok,
                                 ret |-> query_ret(q)]),
               resp |-> read_response(d, q)] :
                q \in queryTarget_call(n.bytes, target, call_data, user_address)}

Clarification ==
    <<"Interpreted as a query.", "Specify",
      <<"balance", "rewards", "APY", "TVL", "stake info">>>>

\* The read path (chat.py `if not requires_tx:`).
read_path(reg, agent_id, message, parsed_action, user_address) ==
    UNION {
        IF ~g.result.some
        THEN {[op |-> None, calls |-> g.calls, resp |-> HttpError(404, "Agent not found")]}
        ELSE LET d == detect_read_function(lower(message), lower(parsed_action),
                                           user_address)
             IN  IF d.fn = NoFn
                 THEN {[op |-> Some(d), calls |-> g.calls,
                        resp |-> DocChatQueryResponse(Clarification, None)]}
                 ELSE query_outcomes(agent_id, g.result.val.target_address, d,
                                     user_address, g.calls) :
        g \in get_agent(reg, agent_id)}

\* process_message_doc_shape: every outcome of one request, as
\* [action, op, calls, resp].  initialize() or parse_message can raise
\* before any label exists; process_intent can raise after.
process_message_doc_shape(reg, agent_id, message, user_address) ==
    {[action |-> None, op |-> None, calls |-> <<>>, resp |-> HttpError(500, "internal")]}
        \cup
        UNION {
            {[action |-> Some(a), op |-> None, calls |-> <<>>,
              resp |-> HttpError(500, "internal")]}
                \cup
                {[action |-> Some(a), op |-> o.op, calls |-> o.calls, resp |-> o.resp] :
                    o \in IF requires_tx(a)
                          THEN write_path(a, user_address)
                          ELSE read_path(reg, agent_id, message, a, user_address)} :
            a \in ParsedActions}

(***************************************************************************)
(* BlockchainService.validate_transaction                                  *)
(***************************************************************************)
SelectorLen == 4

\* The selector argument: hex taken verbatim, else the first four characters.
selector_bytes(function_selector) ==
    IF startswith_0x(function_selector)
    THEN fromhex(SubSeq(function_selector, 3, Len(function_selector)))
    ELSE [ok |-> TRUE, bytes |-> encode_str(Take(function_selector, SelectorLen))]

\* hub.functions.validateTransaction(id, target, selector).call({"from": user}):
\* the hub's answer depends on authorizations the backend does not hold.
validateTransaction_call(id, target, sel, user_address) ==
    {[ok |-> FALSE]}
        \cup (IF /\ address_bytes(user_address).ok
                 /\ Bytes32Args(id) # {}
                 /\ Len(sel) <= SelectorLen
              THEN {[ok |-> TRUE, value |-> v] : v \in BOOLEAN}
              ELSE {})

\* Mutant: a hub call that fails counts as an authorization.
validate_transaction_fail_open(agent_id, target, function_selector, user_address) ==
    LET n == agent_id_bytes(agent_id)
        s == selector_bytes(function_selector)
    IN  {[calls |-> <<>>, result |-> FALSE]}
            \cup
            (IF ~n.ok \/ ~s.ok THEN {[calls |-> <<>>, result |-> FALSE]}
             ELSE {[calls |-> <<[fn |-> "validateTransaction", id |-> n.bytes,
                                 target |-> target, selector |-> s.bytes,
                                 from |-> user_address, ok |-> o.ok,
                                 ret |-> IF o.ok THEN Some(o.value) ELSE None]>>,
                    result |-> IF o.ok THEN o.value ELSE TRUE] :
                      o \in validateTransaction_call(n.bytes, target, s.bytes,
                                                     user_address)})

\* BlockchainService.validate_transaction: every exception ends in `return False`.
validate_transaction(agent_id, target, function_selector, user_address) ==
    LET n == agent_id_bytes(agent_id)
        s == selector_bytes(function_selector)
    IN  {[calls |-> <<>>, result |-> FALSE]}
            \cup
            (IF ~n.ok \/ ~s.ok THEN {[calls |-> <<>>, result |-> FALSE]}
             ELSE {[calls |-> <<[fn |-> "validateTransaction", id |-> n.bytes,
                                 target |-> target, selector |-> s.bytes,
                                 from |-> user_address, ok |-> o.ok,
                                 ret |-> IF o.ok THEN Some(o.value) ELSE None]>>,
                    result |-> IF o.ok THEN o.value ELSE FALSE] :
                      o \in validateTransaction_call(n.bytes, target, s.bytes,
                                                     user_address)})

(***************************************************************************)
(* Requests                                                                *)
(***************************************************************************)
TxHashes == {"0xtx1"}

NoReceipts == [t \in TxHashes |-> None]

EmptyCache == [k \in {} |-> None]

\* No confirmation is running side by side with the request being handled.
NoWorkers == [w \in {} |-> None]

Idle == [op |-> "idle"]

Pending == [kind |-> "pending"]

Handling(name) == req.op = name /\ resp = Pending

Registry0 == (IdA :> AgentA) @@ (IdB :> AgentB)

ChatAgentIds == {Erc20_2, HexIdB, ShortHexId, Ghost}

FunctionSelectors ==
    {Hex0x \o <<"7", "0", "a", "0", "8", "2", "3", "1">>, W_stake, Hex0x \o <<"7">>}

LookupRequests ==
    {[op |-> "get_agent", agent_id |-> i] : i \in AgentIdInputs}
        \cup {[op |-> "is_agent_active", agent_id |-> i] : i \in AgentIdInputs}
        \cup {[op |-> "validate_transaction", agent_id |-> i, target |-> TargetA,
               function_selector |-> f, user_address |-> UserA] :
                i \in AgentIdInputs, f \in FunctionSelectors}

ChatRequests ==
    {[op |-> "chat_message", agent_id |-> i, message |-> m, userAddress |-> u] :
        i \in ChatAgentIds, m \in Messages, u \in Users}

\* The HTTP layer delivers one request.
Receive ==
    /\ req = Idle
    /\ \E r \in LookupRequests \cup ChatRequests : req' = r
    /\ resp' = Pending
    /\ UNCHANGED <<waited, workers, registry, receipts, agents_cache, action, op, calls>>

\* The response goes out; the handler's locals are gone.
Reply ==
    /\ req # Idle
    /\ resp # Pending
    /\ req' = Idle
    /\ resp' = Pending
    /\ action' = None
    /\ op' = None
    /\ calls' = <<>>
    /\ UNCHANGED <<waited, workers, registry, receipts, agents_cache>>

\* agents.py GET /{agent_id}
GetAgent ==
    /\ Handling("get_agent")
    /\ \E o \in get_agent(registry, req.agent_id) :
          /\ calls' = o.calls
          /\ resp' = IF o.result.some
                     THEN [kind |-> "agent", agent |-> o.result.val]
                     ELSE HttpError(404, "Agent not found")
    /\ UNCHANGED <<waited, workers, registry, receipts, agents_cache, req, action, op>>

\* BlockchainService.is_agent_active
IsAgentActive ==
    /\ Handling("is_agent_active")
    /\ \E o \in is_agent_active(registry, req.agent_id) :
          /\ calls' = o.calls
          /\ resp' = [kind |-> "active", value |-> o.result]
    /\ UNCHANGED <<waited, workers, registry, receipts, agents_cache, req, action, op>>

\* transactions.py POST /validate
ValidateTransaction ==
    /\ Handling("validate_transaction")
    /\ \E o \in validate_transaction(req.agent_id, req.target, req.function_selector,
                                     req.user_address) :
          /\ calls' = o.calls
          /\ resp' = [kind |-> "validation", valid |-> o.result,
                      agent_id |-> req.agent_id, target |-> req.target,
                      function |-> req.function_selector]
    /\ UNCHANGED <<waited, workers, registry, receipts, agents_cache, req, action, op>>

\* chat.py POST /{agent_id}/message
ProcessMessageDocShape ==
    /\ Handling("chat_message")
    /\ \E o \in process_message_doc_shape(registry, req.agent_id, req.message,
                                          req.userAddress) :
          /\ action' = o.action
          /\ op' = o.op
          /\ calls' = o.calls
          /\ resp' = o.resp
    /\ UNCHANGED <<waited, workers, registry, receipts, agents_cache, req>>


Init ==
    /\ registry = Registry0
    /\ receipts = NoReceipts
    /\ agents_cache = EmptyCache
    /\ req = Idle
    /\ action = None
    /\ op = None
    /\ calls = <<>>
    /\ resp = Pending
    /\ workers = NoWorkers
    /\ waited = 0

Next ==
    \/ Receive
    \/ GetAgent
    \/ IsAgentActive
    \/ ValidateTransaction
    \/ ProcessMessageDocShape
    \/ Reply

Spec == Init /\ [][Next]_vars

(***************************************************************************)
(* Properties of the chat endpoint and of the identifier normalization     *)
(***************************************************************************)
ChatDone == req.op = "chat_message" /\ resp # Pending

HubQueried == \E i \in 1..Len(calls) : calls[i].fn = "queryTarget"

\* Case-insensitive comparison, character by character.
EqualsIgnoreCase(a, l) ==
    Len(a) = Len(l) /\ \A j \in 1..Len(l) : LowerChar(a[j]) = l[j]

ContainsIgnoreCase(m, k) ==
    \E i \in 0..(Len(m) - Len(k)) : \A j \in 1..Len(k) : LowerChar(m[i + j]) = k[j]

WriteLabels == {W_stake, W_withdraw, W_claim, W_swap, W_lend, W_borrow}

IsWriteLabel(a) == \E l \in WriteLabels : EqualsIgnoreCase(a, l)

\* The read rules as a priority-ordered table.
ReadRuleTable ==
    <<[fn |-> "balanceOf(address)", keywords |-> {W_balance},
       labels |-> {W_balance, W_balanceof}],
      [fn |-> "pendingRewards(address)", keywords |-> {W_pending, W_rewards},
       labels |-> {W_pendingrewards}],
      [fn |-> "getCurrentAPY()", keywords |-> {W_apy},
       labels |-> {W_getcurrentapy, W_apy}],
      [fn |-> "getTVL()", keywords |-> {W_tvl}, labels |-> {W_gettvl, W_tvl}],
      [fn |-> "getStakeInfo(address)", keywords |-> {W_stake_info, W_stakeinfo},
       labels |-> {W_getstakeinfo}]>>

RuleHolds(r, m, a) ==
    \/ \E k \in r.keywords : ContainsIgnoreCase(m, k)
    \/ \E l \in r.labels : EqualsIgnoreCase(a, l)

MatchingRules(m, a) == {i \in 1..Len(ReadRuleTable) : RuleHolds(ReadRuleTable[i], m, a)}

FirstMatch(m, a) ==
    IF MatchingRules(m, a) = {} THEN NoFn
    ELSE ReadRuleTable[CHOOSE i \in MatchingRules(m, a) :
                           \A j \in MatchingRules(m, a) : i <= j].fn

\* C1: a request whose parsed action label, lower-cased, is one of stake,
\* withdraw, claim, swap, lend, borrow takes the write path whatever the
\* message says: the endpoint resolves no read function and makes no registry
\* or hub call, and its response is the transaction preview with
\* requiresTransaction = true (or the internal fault of a failed preparation),
\* never a query response.
C1_WriteLabelTakesWritePath ==
    (ChatDone /\ action.some /\ IsWriteLabel(action.val)) =>
        /\ ~HubQueried
        /\ calls = <<>>
        /\ op = None
        /\ resp.kind \in {"tx", "error"}
        /\ resp.kind = "tx" =>
              /\ resp.requiresTransaction
              /\ resp.success
              /\ resp.transaction.warnings[1] = "Gas fees will apply"
        /\ resp.kind = "error" => resp.status = 500

\* C1 witness: the label "Stake" with a message that holds read keywords
\* ("Balances Apy") ends in a transaction preview.
C1_Witness ==
    /\ ChatDone
    /\ action = Some(<<"S", "t", "a", "k", "e">>)
    /\ ContainsIgnoreCase(req.message, W_balance)
    /\ ContainsIgnoreCase(req.message, W_apy)
    /\ resp.kind = "tx"
    /\ resp.requiresTransaction

\* C3 (as claimed): every identifier handed to a registry or hub call is
\* exactly 32 bytes long.
C3_IdentifierIs32Bytes ==
    \A i \in 1..Len(calls) : ("id" \in DOMAIN calls[i]) => Len(calls[i].id) = IdLen

\* C4: the read function resolved for a (message, action) pair is the function
\* of the first rule of the priority-ordered table that holds, compared without
\* regard to letter case; a hub query carries that function's selector.
C4_FirstMatchWins ==
    (ChatDone /\ op.some) =>
        /\ op.val.fn = FirstMatch(req.message, action.val)
        /\ \A i \in 1..Len(calls) :
              calls[i].fn = "queryTarget" =>
                  SubSeq(calls[i].data, 1, SelectorLen)
                      = selector(FirstMatch(req.message, action.val))

\* C4 witness: the label of the last rule ("getStakeInfo") with an upper-case
\* keyword of the second ("REWARDS") and a keyword of the fourth ("tvl")
\* resolves to pendingRewards(address), and the hub is queried.
C4_Witness ==
    /\ ChatDone
    /\ op.some
    /\ EqualsIgnoreCase(action.val, W_getstakeinfo)
    /\ Contains(req.message, <<"R", "E", "W", "A", "R", "D", "S">>)
    /\ Contains(req.message, W_tvl)
    /\ op.val.fn = "pendingRewards(address)"
    /\ HubQueried

BalanceCase ==
    /\ ChatDone
    /\ op.some
    /\ \/ EqualsIgnoreCase(action.val, W_balanceof)
       \/ ContainsIgnoreCase(req.message, W_balance)

\* C5: for a non-write intent, the label "balanceof" (any message) and a
\* message containing "balance" (any non-write label) resolve to the same
\* operation: balanceOf(address), its one argument the caller's own address,
\* one uint256 returned and reported under the key "balance".
C5_BalanceResolution ==
    BalanceCase =>
        /\ op.val.fn = "balanceOf(address)"
        /\ op.val.arg_types = <<"address">>
        /\ op.val.args = <<req.userAddress>>
        /\ op.val.out_types = <<"uint256">>
        /\ op.val.data_keys = <<"balance">>
        /\ \A i \in 1..Len(calls) :
              calls[i].fn = "queryTarget" =>
                  /\ calls[i].data
                        = <<112, 160, 130, 49>> \o Rep(0, WordLen - AddressLen)
                            \o fromhex(SubSeq(req.userAddress, 3, Len(req.userAddress))).bytes
                  /\ calls[i].from = req.userAddress
        /\ resp.kind = "query" =>
              /\ Len(resp.data.val) = 1
              /\ resp.data.val[1].key = "balance"

\* C5 witness: the label "BalanceOf" with the message "tvl" (a keyword of a
\* later rule) answers with the caller's balance.
C5_Witness ==
    /\ ChatDone
    /\ action = Some(<<"B", "a", "l", "a", "n", "c", "e", "O", "f">>)
    /\ req.message = W_tvl
    /\ req.userAddress = UserB
    /\ resp.kind = "query"
    /\ resp.data = Some(<<[key |-> "balance", value |-> Some(<<"1", "5", "0", "0">>)]>>)

NoRuleCase ==
    /\ ChatDone
    /\ action.some
    /\ ~IsWriteLabel(action.val)
    /\ MatchingRules(req.message, action.val) = {}

UnknownOperation == DocChatQueryResponse(Clarification, None)

\* C6 (as claimed): a non-write intent that matches no read rule ends in the
\* UnknownOperation result with no hub query, whatever the chain holds
\* (the internal fault of a failed intent service aside).
C6_UnknownWhateverTheChain ==
    (NoRuleCase /\ ~(resp.kind = "error" /\ resp.status = 500)) =>
        /\ resp = UnknownOperation
        /\ ~HubQueried

\* C6 (amended): the registry read comes first.  A non-write intent that
\* matches no read rule never queries the hub; once the agent was read from
\* the registry the outcome is the UnknownOperation result (clarification,
\* requiresTransaction = false, data = null) and no function is guessed; when
\* the registry read fails the request ends with 404 instead.
C6_UnknownAfterAgentResolved ==
    NoRuleCase =>
        /\ ~HubQueried
        /\ op.some =>
              /\ op.val.fn = NoFn
              /\ resp = UnknownOperation
              /\ ~resp.requiresTransaction
              /\ resp.data = None
              /\ Len(calls) = 1 /\ calls[1].fn = "getAgent" /\ calls[1].ok
        /\ ~op.some =>
              /\ resp.kind = "error"
              /\ resp.status \in {404, 500}
              /\ resp.status = 404 =>
                    \A i \in 1..Len(calls) : calls[i].fn = "getAgent" /\ ~calls[i].ok

\* C6 witness: "stake" as a message with the label "rewards" matches no rule
\* and is answered with the clarification.
C6_Witness ==
    /\ NoRuleCase
    /\ req.message = W_stake
    /\ action.val = W_rewards
    /\ resp = UnknownOperation

(***************************************************************************)
(* Receipts and their logs                                                 *)
(***************************************************************************)
\* What a contract emitted: the event of the log's topic, whether its data
\* decodes under that event's layout, and the event's arguments.
LogKinds ==
    {[topic |-> "AgentRegistered", data_ok |-> TRUE, args |-> [agentId |-> IdA]],
     [topic |-> "AgentRegistered", data_ok |-> TRUE, args |-> [agentId |-> IdB]],
     [topic |-> "AgentRegistered", data_ok |-> FALSE, args |-> [agentId |-> IdB]],
     [topic |-> "FunctionExecuted", data_ok |-> TRUE, args |-> [agentId |-> IdA]],
     [topic |-> "Transfer", data_ok |-> TRUE, args |-> [agentId |-> IdA]]}

RECURSIVE SeqsUpTo(_, _)
SeqsUpTo(S, n) ==
    IF n = 0 THEN {<<>>}
    ELSE LET shorter == SeqsUpTo(S, n - 1) IN
         shorter \cup {Append(q, x) : q \in shorter, x \in S}

\* The logs of a mined transaction: each with its index and transaction hash.
LogsOf(tx, kinds) ==
    [i \in 1..Len(kinds) |->
        [topic |-> kinds[i].topic, data_ok |-> kinds[i].data_ok,
         args |-> kinds[i].args, logIndex |-> i - 1, transactionHash |-> tx]]

\* Receipts the node can hold for tx; the key "logs" can be absent.
ReceiptsOf(tx) ==
    {[status |-> st, blockNumber |-> 7, gasUsed |-> 21000, logs |-> Some(LogsOf(tx, k))] :
        st \in {0, 1}, k \in SeqsUpTo(LogKinds, MaxLogs)}
        \cup {[status |-> 1, blockNumber |-> 7, gasUsed |-> 21000, logs |-> None]}

\* contract.events.<event>().process_log(log): the log's topic must be the
\* event's and its data must decode; otherwise it raises.
process_log(event, log) ==
    IF log.topic = event /\ log.data_ok
    THEN [ok |-> TRUE, args |-> log.args]
    ELSE [ok |-> FALSE, args |-> log.args]

\* receipt.get("logs", [])
receipt_logs(receipt) == IF receipt.logs.some THEN receipt.logs.val ELSE <<>>

\* client.get_transaction_receipt(tx): the node's receipt, None when it has
\* none, or a failed call.
get_transaction_receipt_call(rcpts, tx) ==
    {[fn |-> "get_transaction_receipt", tx |-> tx, ok |-> FALSE, ret |-> None],
     [fn |-> "get_transaction_receipt", tx |-> tx, ok |-> TRUE, ret |-> rcpts[tx]]}

(***************************************************************************)
(* agents.py POST /confirm: confirm_agent_registration                     *)
(***************************************************************************)
\* Mutant: agent_id_hex starts as "0x" instead of None.
RECURSIVE scan_agent_registered_from_0x(_)
scan_agent_registered_from_0x(logs) ==
    IF logs = <<>> THEN Some(Hex0x)
    ELSE LET ev == process_log("AgentRegistered", Head(logs)) IN
         IF ev.ok THEN Some(Hex0x \o hex(ev.args.agentId))
         ELSE scan_agent_registered_from_0x(Tail(logs))

\* Mutant: the scan does not stop at the first AgentRegistered log, so the
\* last one wins.
RECURSIVE scan_agent_registered_last(_)
scan_agent_registered_last(logs) ==
    IF logs = <<>> THEN None
    ELSE LET ev == process_log("AgentRegistered", Head(logs))
             later == scan_agent_registered_last(Tail(logs))
         IN  IF later.some THEN later
             ELSE IF ev.ok THEN Some(Hex0x \o hex(ev.args.agentId))
             ELSE None

\* The loop over the logs: the first log that decodes as AgentRegistered
\* gives agent_id_hex and ends the loop; a log that does not is skipped.
RECURSIVE scan_agent_registered(_)
scan_agent_registered(logs) ==
    IF logs = <<>> THEN None
    ELSE LET ev == process_log("AgentRegistered", Head(logs)) IN
         IF ev.ok THEN Some(Hex0x \o hex(ev.args.agentId))
         ELSE scan_agent_registered(Tail(logs))

ConfirmFailure(error, tx) ==
    [kind |-> "confirm", success |-> FALSE, error |-> error, txHash |-> tx]

ConfirmSuccess(agent_id_hex, tx, agent_obj) ==
    [kind |-> "confirm", success |-> TRUE, agentId |-> agent_id_hex, txHash |-> tx,
     agent |-> agent_obj]

\* AgentCacheModel.upsert: the row replaces the one stored under its agent_id.
upsert(cache, row) ==
    [k \in DOMAIN cache \cup {row.agent_id} |->
        IF k = row.agent_id THEN row ELSE cache[k]]

\* The statement AgentCacheModel.upsert runs, as the handler's trace keeps
\* it: the row, whether it went through, and the row the table held under
\* that agent_id when it ran.
upsert_call(cache, row, ok) ==
    [fn |-> "upsert", row |-> row, ok |-> ok,
     before |-> IF row.agent_id \in DOMAIN cache THEN Some(cache[row.agent_id]) ELSE None]

\* Mutant: the abi is stored as given, an empty list included.
abi_as_given(abi) == abi

\* request.abi if request.abi else None: an empty list counts as no abi.
abi_or_none(abi) == IF abi.some /\ abi.val # <<>> THEN abi ELSE None

\* Mutant: the row is written with owner and target exchanged.
cache_row_swapped(agent_id_hex, t, abi) ==
    [agent_id |-> agent_id_hex, target_address |-> t.owner, owner |-> t.targetContract,
     name |-> t.name, description |-> "", config_ipfs |-> t.configIPFS,
     active |-> t.active, abi |-> abi_or_none(abi)]

\* The row confirm_agent_registration hands to upsert.
cache_row(agent_id_hex, t, abi) ==
    [agent_id |-> agent_id_hex, target_address |-> t.targetContract, owner |-> t.owner,
     name |-> t.name, description |-> "", config_ipfs |-> t.configIPFS,
     active |-> t.active, abi |-> abi_or_none(abi)]

\* Mutant: a failed upsert is not caught where it happens; it reaches the
\* handler of the agent details, which drops the agent object.
fetch_and_cache_unguarded(reg, cache, tx, abi, agent_id_hex, lookup) ==
    LET b == fromhex(SubSeq(agent_id_hex, 3, Len(agent_id_hex)))
        getAgent(o) ==
            [fn |-> "getAgent", id |-> b.bytes, ok |-> o.ok,
             ret |-> IF o.ok THEN Some(o.tuple) ELSE None]
        agent_obj(t) ==
            [id |-> agent_id_hex, owner |-> t.owner, targetContract |-> t.targetContract,
             name |-> t.name, active |-> t.active]
    IN  IF ~b.ok
        THEN {[calls |-> <<lookup>>, cache |-> cache,
               resp |-> ConfirmSuccess(agent_id_hex, tx, None)]}
        ELSE UNION {
                IF ~o.ok
                THEN {[calls |-> <<lookup, getAgent(o)>>, cache |-> cache,
                       resp |-> ConfirmSuccess(agent_id_hex, tx, None)]}
                ELSE LET row == cache_row(agent_id_hex, o.tuple, abi) IN
                     {[calls |-> <<lookup, getAgent(o),
                                   upsert_call(cache, row, TRUE)>>,
                       cache |-> upsert(cache, row),
                       resp |-> ConfirmSuccess(agent_id_hex, tx, Some(agent_obj(o.tuple)))],
                      [calls |-> <<lookup, getAgent(o),
                                   upsert_call(cache, row, FALSE)>>,
                       cache |-> cache,
                       resp |-> ConfirmSuccess(agent_id_hex, tx, None)]} :
                o \in getAgent_call(reg, b.bytes)}

\* Mutant: when getAgent fails a blank row is stored under the identifier.
fetch_and_cache_blank_row(reg, cache, tx, abi, agent_id_hex, lookup) ==
    LET b == fromhex(SubSeq(agent_id_hex, 3, Len(agent_id_hex)))
        getAgent(o) ==
            [fn |-> "getAgent", id |-> b.bytes, ok |-> o.ok,
             ret |-> IF o.ok THEN Some(o.tuple) ELSE None]
        agent_obj(t) ==
            [id |-> agent_id_hex, owner |-> t.owner, targetContract |-> t.targetContract,
             name |-> t.name, active |-> t.active]
    IN  IF ~b.ok
        THEN {[calls |-> <<lookup>>, cache |-> cache,
               resp |-> ConfirmSuccess(agent_id_hex, tx, None)]}
        ELSE UNION {
                IF ~o.ok
                THEN LET blank == cache_row(agent_id_hex, ZeroAgent, abi) IN
                     {[calls |-> <<lookup, getAgent(o),
                                   upsert_call(cache, blank, TRUE)>>,
                       cache |-> upsert(cache, blank),
                       resp |-> ConfirmSuccess(agent_id_hex, tx, None)]}
                ELSE LET row == cache_row(agent_id_hex, o.tuple, abi) IN
                     {[calls |-> <<lookup, getAgent(o),
                                   upsert_call(cache, row, TRUE)>>,
                       cache |-> upsert(cache, row),
                       resp |-> ConfirmSuccess(agent_id_hex, tx, Some(agent_obj(o.tuple)))],
                      [calls |-> <<lookup, getAgent(o),
                                   upsert_call(cache, row, FALSE)>>,
                       cache |-> cache,
                       resp |-> ConfirmSuccess(agent_id_hex, tx, Some(agent_obj(o.tuple)))]} :
                o \in getAgent_call(reg, b.bytes)}

\* "Fetch agent details" and "Save to database", once the event was found.
fetch_and_cache(reg, cache, tx, abi, agent_id_hex, lookup) ==
    LET b == fromhex(SubSeq(agent_id_hex, 3, Len(agent_id_hex)))
        getAgent(o) ==
            [fn |-> "getAgent", id |-> b.bytes, ok |-> o.ok,
             ret |-> IF o.ok THEN Some(o.tuple) ELSE None]
        agent_obj(t) ==
            [id |-> agent_id_hex, owner |-> t.owner, targetContract |-> t.targetContract,
             name |-> t.name, active |-> t.active]
    IN  IF ~b.ok
        THEN {[calls |-> <<lookup>>, cache |-> cache,
               resp |-> ConfirmSuccess(agent_id_hex, tx, None)]}
        ELSE UNION {
                IF ~o.ok
                THEN {[calls |-> <<lookup, getAgent(o)>>, cache |-> cache,
                       resp |-> ConfirmSuccess(agent_id_hex, tx, None)]}
                ELSE LET row == cache_row(agent_id_hex, o.tuple, abi) IN
                     {[calls |-> <<lookup, getAgent(o),
                                   upsert_call(cache, row, TRUE)>>,
                       cache |-> upsert(cache, row),
                       resp |-> ConfirmSuccess(agent_id_hex, tx, Some(agent_obj(o.tuple)))],
                      [calls |-> <<lookup, getAgent(o),
                                   upsert_call(cache, row, FALSE)>>,
                       cache |-> cache,
                       resp |-> ConfirmSuccess(agent_id_hex, tx, Some(agent_obj(o.tuple)))]} :
                o \in getAgent_call(reg, b.bytes)}

\* confirm_agent_registration: every outcome as [calls, cache, resp].
confirm_agent_registration(reg, rcpts, cache, tx, abi) ==
    {[calls |-> <<>>, cache |-> cache, resp |-> HttpError(500, "internal")]}
        \cup
        UNION {
            IF ~lookup.ok
            THEN {[calls |-> <<lookup>>, cache |-> cache,
                   resp |-> HttpError(500, "internal")]}
            ELSE IF ~lookup.ret.some
            THEN {[calls |-> <<lookup>>, cache |-> cache,
                   resp |-> ConfirmFailure("Transaction not found or pending", tx)]}
            ELSE LET found == scan_agent_registered(receipt_logs(lookup.ret.val)) IN
                 IF ~found.some
                 THEN {[calls |-> <<lookup>>, cache |-> cache,
                        resp |-> ConfirmFailure("AgentRegistered event not found", tx)]}
                 ELSE fetch_and_cache(reg, cache, tx, abi, found.val, lookup) :
            lookup \in get_transaction_receipt_call(rcpts, tx)}

(***************************************************************************)
(* BlockchainService.parse_transaction_events and POST /status             *)
(***************************************************************************)
TransactionEvent(ev, log) ==
    [name |-> "FunctionExecuted", args |-> ev.args, log_index |-> log.logIndex,
     transaction_hash |-> log.transactionHash]

\* Mutant: the first log that is no FunctionExecuted event ends the loop.
RECURSIVE parse_logs_until_mismatch(_)
parse_logs_until_mismatch(logs) ==
    IF logs = <<>> THEN <<>>
    ELSE LET ev == process_log("FunctionExecuted", Head(logs)) IN
         IF ev.ok
         THEN <<TransactionEvent(ev, Head(logs))>> \o parse_logs_until_mismatch(Tail(logs))
         ELSE <<>>

\* The loop over the logs: a log that decodes as FunctionExecuted adds one
\* event; any other log is skipped.
RECURSIVE parse_logs(_)
parse_logs(logs) ==
    IF logs = <<>> THEN <<>>
    ELSE LET ev == process_log("FunctionExecuted", Head(logs)) IN
         (IF ev.ok THEN <<TransactionEvent(ev, Head(logs))>> ELSE <<>>)
             \o parse_logs(Tail(logs))

\* BlockchainService.get_transaction_receipt: the receipt, or None when the
\* node has none or the call failed.
get_transaction_receipt(rcpts, tx) ==
    {[call |-> c, result |-> IF c.ok THEN c.ret ELSE None] :
        c \in get_transaction_receipt_call(rcpts, tx)}

HubContract(ok) == [fn |-> "get_contract", name |-> "ContractMindHubV2", ok |-> ok]

\* BlockchainService.parse_transaction_events: every outcome as
\* [calls, result]; every exception ends in `return []`.
parse_transaction_events(rcpts, tx) ==
    UNION {
        IF ~r.result.some
        THEN {[calls |-> <<r.call>>, result |-> <<>>]}
        ELSE {[calls |-> <<r.call, HubContract(FALSE)>>, result |-> <<>>],
              [calls |-> <<r.call, HubContract(TRUE)>>,
               result |-> parse_logs(receipt_logs(r.result.val))]} :
        r \in get_transaction_receipt(rcpts, tx)}

TransactionStatusResponse(tx, status, block_number, gas_used, events) ==
    [kind |-> "status", tx_hash |-> tx, status |-> status,
     block_number |-> block_number, gas_used |-> gas_used, events |-> events]

\* get_transaction_status: every outcome as [calls, resp].  The response
\* model declares events as a list of dicts and is handed TransactionEvent
\* objects: with a non-empty list the build either converts them or rejects
\* the response, which ends in the handler's HTTP 500.
get_transaction_status(rcpts, tx) ==
    UNION {
        IF ~r.result.some
        THEN {[calls |-> <<r.call>>,
               resp |-> TransactionStatusResponse(tx, "pending", None, None, None)]}
        ELSE UNION {
                {[calls |-> <<r.call>> \o e.calls,
                  resp |-> TransactionStatusResponse(
                               tx,
                               IF r.result.val.status = 1 THEN "success" ELSE "failed",
                               Some(r.result.val.blockNumber),
                               Some(r.result.val.gasUsed),
                               Some(e.result))]}
                    \cup (IF e.result # <<>>
                          THEN {[calls |-> <<r.call>> \o e.calls,
                                 resp |-> HttpError(500, "internal")]}
                          ELSE {}) :
                e \in parse_transaction_events(rcpts, tx)} :
        r \in get_transaction_receipt(rcpts, tx)}

(***************************************************************************)
(* update_agent_address.py and agents.py POST /register                    *)
(***************************************************************************)
\* update_agent_address: SELECT the row, and UPDATE its target_address when
\* it exists; every outcome as [calls, cache, resp].
update_agent_address(cache, agent_id, new_address) ==
    {[calls |-> <<>>, cache |-> cache, resp |-> [kind |-> "script", result |-> "raised"]]}
        \cup
        (IF agent_id \notin DOMAIN cache
         THEN {[calls |-> <<[fn |-> "select", agent_id |-> agent_id, found |-> FALSE]>>,
                cache |-> cache,
                resp |-> [kind |-> "script", result |-> "not found"]]}
         ELSE {[calls |-> <<[fn |-> "select", agent_id |-> agent_id, found |-> TRUE],
                            [fn |-> "update", agent_id |-> agent_id,
                             target_address |-> new_address]>>,
                cache |-> [cache EXCEPT ![agent_id].target_address = new_address],
                resp |-> [kind |-> "script", result |-> "updated",
                          verified |-> new_address]]})

DefaultGasEstimate == 500000

NodeGasEstimate == 183250

\* A gas price of the node, in wei.
NodeGasPrice == 2000000000

\* Mutant: a failed estimate or a failed gas price ends the request.
register_agent_abort(r) ==
    {[calls |-> <<>>, resp |-> HttpError(500, "internal")]}
        \cup
        {[calls |-> <<[fn |-> "build_transaction", contract |-> "AgentRegistry",
                       function |-> "registerAgent", from |-> r.ownerAddress],
                      [fn |-> "estimate_gas", ok |-> est_ok],
                      [fn |-> "get_gas_price", ok |-> price_ok,
                       gas_price |-> IF price_ok THEN Some(NodeGasPrice) ELSE None]>>,
          resp |-> IF est_ok /\ price_ok
                   THEN [kind |-> "register", success |-> TRUE,
                         requiresTransaction |-> TRUE,
                         transaction |->
                             [to |-> "AGENT_REGISTRY_ADDRESS",
                              data |-> <<"registerAgent", r.targetContract, r.name,
                                         r.configIPFS>>,
                              value |-> "0",
                              gasEstimate |-> str_int(NodeGasEstimate),
                              explanation |-> <<"Register agent", r.name>>,
                              functionName |-> "registerAgent",
                              warnings |-> <<"Gas fees will apply",
                                             "You will grant your agent configuration on-chain">>]]
                   ELSE HttpError(500, "internal")] :
            est_ok \in BOOLEAN, price_ok \in BOOLEAN}

\* register_agent: every outcome as [calls, resp].  A failed estimate falls
\* back to the default; the gas price is fetched, None when the
\* node fails, and is not part of the preview.
register_agent(r) ==
    {[calls |-> <<>>, resp |-> HttpError(500, "internal")]}
        \cup
        {[calls |-> <<[fn |-> "build_transaction", contract |-> "AgentRegistry",
                       function |-> "registerAgent", from |-> r.ownerAddress],
                      [fn |-> "estimate_gas", ok |-> est_ok],
                      [fn |-> "get_gas_price", ok |-> price_ok,
                       gas_price |-> IF price_ok THEN Some(NodeGasPrice) ELSE None]>>,
          resp |-> [kind |-> "register", success |-> TRUE, requiresTransaction |-> TRUE,
                    transaction |->
                        [to |-> "AGENT_REGISTRY_ADDRESS",
                         data |-> <<"registerAgent", r.targetContract, r.name, r.configIPFS>>,
                         value |-> "0",
                         gasEstimate |-> str_int(IF est_ok THEN NodeGasEstimate
                                                 ELSE DefaultGasEstimate),
                         explanation |-> <<"Register agent", r.name>>,
                         functionName |-> "registerAgent",
                         warnings |-> <<"Gas fees will apply",
                                        "You will grant your agent configuration on-chain">>]]] :
            est_ok \in BOOLEAN, price_ok \in BOOLEAN}

(***************************************************************************)
(* Receipts, confirmation and the cache: requests and actions              *)
(***************************************************************************)
NewTarget == "0x0dDF803Cfb6a1ABf0c84F7fED62746A3Ba6365e3"

Abi1 == <<"abi">>

\* Identifiers resolved while the cache fills: a name, the hex spelling of
\* the same 32 bytes, another agent's hex id, and a name never registered.
ResolveIds == {Erc20_2, Hex0x \o hex(IdA), HexIdB, Ghost}

ReceiptRequests ==
    {[op |-> "confirm", txHash |-> t, abi |-> a] :
        t \in TxHashes, a \in {None, Some(<<>>), Some(Abi1)}}
        \cup {[op |-> "parse_events", tx_hash |-> t] : t \in TxHashes}
        \cup {[op |-> "status", tx_hash |-> t] : t \in TxHashes}
        \cup {[op |-> "update_agent_address", agent_id |-> i, new_address |-> NewTarget] :
                i \in {Erc20_2, Hex0x \o hex(IdA), HexIdB}}
        \cup {[op |-> "register_agent", ownerAddress |-> OwnerA, targetContract |-> TargetA,
               name |-> Erc20_2, configIPFS |-> "ipfsA"]}
        \cup {[op |-> "get_agent", agent_id |-> i] : i \in ResolveIds}

ReceiveReceiptRequest ==
    /\ req = Idle
    /\ \E r \in ReceiptRequests : req' = r
    /\ resp' = Pending
    /\ UNCHANGED <<waited, workers, registry, receipts, agents_cache, action, op, calls>>

\* The chain includes the transaction: the node now has its receipt.
MineTx ==
    /\ req = Idle
    /\ \E t \in TxHashes :
          /\ ~receipts[t].some
          /\ \E r \in ReceiptsOf(t) : receipts' = [receipts EXCEPT ![t] = Some(r)]
    /\ UNCHANGED <<waited, workers, registry, agents_cache, req, action, op, calls, resp>>

ConfirmAgentRegistration ==
    /\ Handling("confirm")
    /\ \E o \in confirm_agent_registration(registry, receipts, agents_cache,
                                           req.txHash, req.abi) :
          /\ calls' = o.calls
          /\ agents_cache' = o.cache
          /\ resp' = o.resp
    /\ UNCHANGED <<waited, workers, registry, receipts, req, action, op>>

ParseTransactionEvents ==
    /\ Handling("parse_events")
    /\ \E o \in parse_transaction_events(receipts, req.tx_hash) :
          /\ calls' = o.calls
          /\ resp' = [kind |-> "events", events |-> o.result]
    /\ UNCHANGED <<waited, workers, registry, receipts, agents_cache, req, action, op>>

GetTransactionStatus ==
    /\ Handling("status")
    /\ \E o \in get_transaction_status(receipts, req.tx_hash) :
          /\ calls' = o.calls
          /\ resp' = o.resp
    /\ UNCHANGED <<waited, workers, registry, receipts, agents_cache, req, action, op>>

UpdateAgentAddress ==
    /\ Handling("update_agent_address")
    /\ \E o \in update_agent_address(agents_cache, req.agent_id, req.new_address) :
          /\ calls' = o.calls
          /\ agents_cache' = o.cache
          /\ resp' = o.resp
    /\ UNCHANGED <<waited, workers, registry, receipts, req, action, op>>

RegisterAgent ==
    /\ Handling("register_agent")
    /\ \E o \in register_agent(req) :
          /\ calls' = o.calls
          /\ resp' = o.resp
    /\ UNCHANGED <<waited, workers, registry, receipts, agents_cache, req, action, op>>

NextReceipt ==
    \/ ReceiveReceiptRequest
    \/ MineTx
    \/ ConfirmAgentRegistration
    \/ ParseTransactionEvents
    \/ GetTransactionStatus
    \/ UpdateAgentAddress
    \/ RegisterAgent
    \/ GetAgent
    \/ Reply

SpecReceipt == Init /\ [][NextReceipt]_vars

(***************************************************************************)
(* Properties of the receipt handlers and of the agent cache               *)
(***************************************************************************)
\* The handler asked the node for the receipt and the call went through.
ReceiptLookedUp ==
    /\ resp # Pending
    /\ Len(calls) >= 1
    /\ calls[1].fn = "get_transaction_receipt"
    /\ calls[1].ok

NoReceiptReturned == ReceiptLookedUp /\ ~calls[1].ret.some

ReceiptReturned == ReceiptLookedUp /\ calls[1].ret.some

ReturnedLogs == receipt_logs(calls[1].ret.val)

Decodes(log, signatures) == \E s \in signatures : process_log(s, log).ok

\* C2: every write to agents_cache happens in an operation that read the
\* agent's record from the registry successfully, and the owner, target,
\* name and active values written are the ones that read returned.
C2_CacheWrittenOnlyAfterChainRead ==
    [][agents_cache' # agents_cache =>
        \E i \in 1..Len(calls') :
            /\ calls'[i].fn = "getAgent"
            /\ calls'[i].ok
            /\ \A k \in DOMAIN agents_cache' :
                  (k \notin DOMAIN agents_cache \/ agents_cache'[k] # agents_cache[k]) =>
                      /\ agents_cache'[k].owner = calls'[i].ret.val.owner
                      /\ agents_cache'[k].target_address = calls'[i].ret.val.targetContract
                      /\ agents_cache'[k].name = calls'[i].ret.val.name
                      /\ agents_cache'[k].active = calls'[i].ret.val.active]_vars

\* What an operation answers for a receipt whose logs were all scanned and
\* none decoded as one of the given signatures.
EventNotFoundResults(name, tx, signatures) ==
    LET unmatched == {r \in ReceiptsOf(tx) :
                        \A i \in 1..Len(receipt_logs(r)) :
                            ~Decodes(receipt_logs(r)[i], signatures)}
        having(r) == [NoReceipts EXCEPT ![tx] = Some(r)]
        scanned(o) == Len(o.calls) >= 1 /\ o.calls[1].ok
    IN  UNION {
            IF name = "confirm"
            THEN {o.resp : o \in {x \in confirm_agent_registration(
                                        registry, having(r), agents_cache, tx, None) :
                                    scanned(x)}}
            ELSE IF name = "status"
            THEN {o.resp : o \in {x \in get_transaction_status(having(r), tx) : scanned(x)}}
            ELSE {[kind |-> "events", events |-> o.result] :
                    o \in {x \in parse_transaction_events(having(r), tx) : scanned(x)}} :
            r \in unmatched}

\* C7: what confirm_agent_registration, get_transaction_status and
\* parse_transaction_events answer when the node has no receipt is never
\* what they answer for a receipt scanned without a matching log.
C7_PendingDistinctFromEventNotFound ==
    NoReceiptReturned =>
        /\ req.op = "confirm" =>
              resp \notin EventNotFoundResults("confirm", req.txHash, {"AgentRegistered"})
        /\ req.op = "status" =>
              resp \notin EventNotFoundResults("status", req.tx_hash, {"FunctionExecuted"})
        /\ req.op = "parse_events" =>
              resp \notin EventNotFoundResults("parse_events", req.tx_hash,
                                               {"FunctionExecuted"})

\* C8: a receipt whose log list is empty or absent is answered normally,
\* never with an HTTP 500: confirm_agent_registration answers success =
\* false with "AgentRegistered event not found" and parse_transaction_events
\* answers the empty event list.
C8_ZeroLogsIsEventNotFound ==
    (ReceiptReturned /\ ReturnedLogs = <<>>) =>
        /\ resp.kind # "error"
        /\ req.op = "confirm" =>
              resp = ConfirmFailure("AgentRegistered event not found", req.txHash)
        /\ req.op = "parse_events" => resp = [kind |-> "events", events |-> <<>>]

C8_Witness ==
    /\ req.op = "confirm"
    /\ ReceiptReturned
    /\ ~calls[1].ret.val.logs.some
    /\ resp.kind = "confirm"
    /\ ~resp.success

\* The events an extractor trying the given signatures returns for logs: one
\* per log that decodes, in the order of the logs.
ExtractedFrom(logs, signatures) ==
    LET matching == SelectSeq(logs, LAMBDA l : Decodes(l, signatures)) IN
    [i \in 1..Len(matching) |-> matching[i].logIndex]

LogIndexes(events) == [i \in 1..Len(events) |-> events[i].log_index]

HubLoaded == Len(calls) >= 2 /\ calls[2].fn = "get_contract" /\ calls[2].ok

\* C9 as stated: the event list of parse_transaction_events holds one event
\* for every log that decodes as AgentRegistered or as FunctionExecuted, in
\* receipt order, and nothing else.
C9_EveryKnownSignatureExtracted ==
    (req.op = "parse_events" /\ ReceiptReturned /\ HubLoaded) =>
        LogIndexes(resp.events) =
            ExtractedFrom(ReturnedLogs, {"AgentRegistered", "FunctionExecuted"})

\* C9, amended: parse_transaction_events tries FunctionExecuted only.  With
\* the receipt fetched and the hub contract loaded its list holds exactly
\* one FunctionExecuted event per log that decodes as FunctionExecuted, in
\* receipt order, with the log's index, arguments and transaction hash;
\* every other log, an AgentRegistered one included, is left out.  In every
\* other case the list is empty.
C9_FunctionExecutedLogsExtracted ==
    (req.op = "parse_events" /\ resp # Pending) =>
        IF ReceiptReturned /\ HubLoaded
        THEN /\ LogIndexes(resp.events) = ExtractedFrom(ReturnedLogs, {"FunctionExecuted"})
             /\ \A i \in 1..Len(resp.events) :
                   LET log == ReturnedLogs[resp.events[i].log_index + 1] IN
                   /\ resp.events[i].name = "FunctionExecuted"
                   /\ resp.events[i].args = log.args
                   /\ resp.events[i].transaction_hash = log.transactionHash
        ELSE resp.events = <<>>

C9_Witness ==
    /\ req.op = "parse_events"
    /\ ReceiptReturned
    /\ HubLoaded
    /\ Len(ReturnedLogs) = 3
    /\ ReturnedLogs[1].topic = "Transfer"
    /\ ReturnedLogs[2].topic = "AgentRegistered" /\ ReturnedLogs[2].data_ok
    /\ ReturnedLogs[3].topic = "FunctionExecuted"
    /\ LogIndexes(resp.events) = <<2>>

\* The position of the first log that decodes as AgentRegistered, 0 if none.
FirstAgentRegistered(logs) ==
    LET S == {i \in 1..Len(logs) : Decodes(logs[i], {"AgentRegistered"})} IN
    IF S = {} THEN 0 ELSE CHOOSE i \in S : \A j \in S : i <= j

\* C10: confirm_agent_registration returns, looks up in the registry and
\* uses as the cache key the identifier of the first log, in receipt order,
\* that decodes as AgentRegistered; later matching logs are ignored and
\* earlier logs that do not decode do not stop the scan.
C10_FirstAgentRegisteredLogWins ==
    (req.op = "confirm" /\ ReceiptReturned /\ FirstAgentRegistered(ReturnedLogs) # 0) =>
        LET id == ReturnedLogs[FirstAgentRegistered(ReturnedLogs)].args.agentId
            id_hex == Hex0x \o hex(id)
        IN  /\ resp.kind = "confirm"
            /\ resp.success
            /\ resp.agentId = id_hex
            /\ resp.agent.some => resp.agent.val.id = id_hex
            /\ Len(calls) >= 2
            /\ calls[2].fn = "getAgent"
            /\ calls[2].id = id
            /\ Len(calls) >= 3 =>
                  /\ calls[3].fn = "upsert"
                  /\ calls[3].row.agent_id = id_hex
                  /\ calls[3].ok =>
                        /\ id_hex \in DOMAIN agents_cache
                        /\ agents_cache[id_hex] = calls[3].row

C10_Witness ==
    /\ req.op = "confirm"
    /\ ReceiptReturned
    /\ Len(ReturnedLogs) = 3
    /\ FirstAgentRegistered(ReturnedLogs) = 2
    /\ ReturnedLogs[1].topic = "AgentRegistered"
    /\ Decodes(ReturnedLogs[3], {"AgentRegistered"})
    /\ ReturnedLogs[3].args.agentId # ReturnedLogs[2].args.agentId
    /\ Len(calls) = 3
    /\ calls[3].ok
    /\ resp.agentId = Hex0x \o hex(ReturnedLogs[2].args.agentId)

\* The handler found the AgentRegistered event and read the agent's record
\* from the registry.
AgentReadFromChain ==
    /\ req.op = "confirm"
    /\ ReceiptReturned
    /\ FirstAgentRegistered(ReturnedLogs) # 0
    /\ Len(calls) >= 2
    /\ calls[2].fn = "getAgent"
    /\ calls[2].ok

\* C11: once the AgentRegistered event was found and getAgent succeeded,
\* confirm_agent_registration answers success = true with the agentId and
\* the agent object built from the chain record, whether the cache upsert
\* succeeded or raised.
C11_CacheFailureSwallowed ==
    AgentReadFromChain =>
        LET t == calls[2].ret.val
            id_hex == Hex0x \o hex(calls[2].id)
        IN  /\ Len(calls) = 3
            /\ calls[3].fn = "upsert"
            /\ resp = [kind |-> "confirm", success |-> TRUE, agentId |-> id_hex,
                       txHash |-> req.txHash,
                       agent |-> Some([id |-> id_hex, owner |-> t.owner,
                                       targetContract |-> t.targetContract,
                                       name |-> t.name, active |-> t.active])]

C11_Witness ==
    /\ AgentReadFromChain
    /\ Len(calls) = 3
    /\ ~calls[3].ok
    /\ agents_cache = EmptyCache
    /\ resp.success
    /\ resp.agent.some

\* A confirmation that went through to the cache while the cache already
\* held a row for the agent: a second run over the same receipt.
SecondRunStored ==
    /\ AgentReadFromChain
    /\ Len(calls) = 3
    /\ calls[3].fn = "upsert"
    /\ calls[3].ok
    /\ calls[3].before.some

\* The record the first run stored: the chain record under the agent's hex
\* id, with the abi the first request carried.
FirstRunRecord ==
    LET t == calls[2].ret.val IN
    [agent_id |-> Hex0x \o hex(calls[2].id), target_address |-> t.targetContract,
     owner |-> t.owner, name |-> t.name, description |-> "",
     config_ipfs |-> t.configIPFS, active |-> t.active,
     abi |-> calls[3].before.val.abi]

SameAbiAsFirstRun == calls[3].before.val.abi = abi_or_none(req.abi)

NumWorkers == 2

Workers == 1..NumWorkers

AbiChoices == {None, Some(<<>>), Some(Abi1)}

WorkerIdle == [pc |-> "idle", tx |-> "", abi |-> None, agent_id_hex |-> None,
               tuple |-> None, resp |-> None]

\* Receipts of a registration: the AgentRegistered log alone, or after a
\* log of another contract; or a transaction that registered nothing.
RegistrationReceipts(tx) ==
    LET registered == [topic |-> "AgentRegistered", data_ok |-> TRUE,
                       args |-> [agentId |-> IdA]]
        transfer == [topic |-> "Transfer", data_ok |-> TRUE, args |-> [agentId |-> IdA]]
    IN  {[status |-> 1, blockNumber |-> 7, gasUsed |-> 21000, logs |-> Some(LogsOf(tx, k))] :
            k \in {<<registered>>, <<transfer, registered>>, <<transfer>>}}

\* The record the owner's later updateAgent transaction leaves on chain.
UpdatedAgent(a) == [a EXCEPT !.targetContract = NewTarget]

InitConcurrent ==
    /\ registry = Registry0
    /\ receipts = NoReceipts
    /\ agents_cache = EmptyCache
    /\ req = Idle
    /\ action = None
    /\ op = None
    /\ calls = <<>>
    /\ resp = Pending
    /\ workers = [w \in Workers |-> WorkerIdle]
    /\ waited = 0

\* The chain includes the registration.
MineRegistration ==
    /\ \E t \in TxHashes :
          /\ ~receipts[t].some
          /\ \E r \in RegistrationReceipts(t) : receipts' = [receipts EXCEPT ![t] = Some(r)]
    /\ UNCHANGED <<waited, registry, agents_cache, req, action, op, calls, resp, workers>>

\* The chain includes an update of the agent by its owner.
UpdateAgentOnChain ==
    /\ registry[IdA] = AgentA
    /\ registry' = [registry EXCEPT ![IdA] = UpdatedAgent(AgentA)]
    /\ UNCHANGED <<waited, receipts, agents_cache, req, action, op, calls, resp, workers>>

\* POST /confirm reaches a worker; the handler runs up to its first await.
ConfirmStart(w) ==
    /\ workers[w].pc = "idle"
    /\ \E t \in TxHashes, a \in AbiChoices :
          workers' = [workers EXCEPT ![w] = [WorkerIdle EXCEPT !.pc = "receipt",
                                                               !.tx = t, !.abi = a]]
    /\ UNCHANGED <<waited, registry, receipts, agents_cache, req, action, op, calls, resp>>

\* The node answers get_transaction_receipt; the handler scans the logs and
\* stops at its answer or at the await of getAgent.
ConfirmReceipt(w) ==
    /\ workers[w].pc = "receipt"
    /\ \E lookup \in get_transaction_receipt_call(receipts, workers[w].tx) :
          LET tx == workers[w].tx
              found == scan_agent_registered(receipt_logs(lookup.ret.val))
              done(r) == [workers EXCEPT ![w].pc = "done", ![w].resp = Some(r)]
          IN  workers' =
                    IF ~lookup.ok THEN done(HttpError(500, "internal"))
                    ELSE IF ~lookup.ret.some
                    THEN done(ConfirmFailure("Transaction not found or pending", tx))
                    ELSE IF ~found.some
                    THEN done(ConfirmFailure("AgentRegistered event not found", tx))
                    ELSE [workers EXCEPT ![w].pc = "getAgent",
                                         ![w].agent_id_hex = found]
    /\ UNCHANGED <<waited, registry, receipts, agents_cache, req, action, op, calls, resp>>

\* The node answers getAgent from the chain as it is now.
ConfirmGetAgent(w) ==
    /\ workers[w].pc = "getAgent"
    /\ LET agent_id_hex == workers[w].agent_id_hex.val
           b == fromhex(SubSeq(agent_id_hex, 3, Len(agent_id_hex)))
       IN  \E o \in getAgent_call(registry, b.bytes) :
              workers' =
                    IF o.ok
                    THEN [workers EXCEPT ![w].pc = "upsert", ![w].tuple = Some(o.tuple)]
                    ELSE [workers EXCEPT
                            ![w].pc = "done",
                            ![w].resp = Some(ConfirmSuccess(agent_id_hex, workers[w].tx,
                                                            None))]
    /\ UNCHANGED <<waited, registry, receipts, agents_cache, req, action, op, calls, resp>>

\* The handler goes on from getAgent's answer: it builds the row, runs the
\* upsert, which goes through or raises, and answers.
ConfirmUpsert(w) ==
    /\ workers[w].pc = "upsert"
    /\ LET agent_id_hex == workers[w].agent_id_hex.val
           t == workers[w].tuple.val
           row == cache_row(agent_id_hex, t, workers[w].abi)
           agent_obj == [id |-> agent_id_hex, owner |-> t.owner,
                         targetContract |-> t.targetContract, name |-> t.name,
                         active |-> t.active]
       IN  /\ \E ok \in BOOLEAN :
                /\ calls' = Append(calls, [w |-> w,
                                           call |-> upsert_call(agents_cache, row, ok)])
                /\ agents_cache' = IF ok THEN upsert(agents_cache, row) ELSE agents_cache
           /\ workers' = [workers EXCEPT
                            ![w].pc = "done",
                            ![w].resp = Some(ConfirmSuccess(agent_id_hex, workers[w].tx,
                                                            Some(agent_obj)))]
    /\ UNCHANGED <<waited, registry, receipts, req, action, op, resp>>

NextConcurrent ==
    \/ MineRegistration
    \/ UpdateAgentOnChain
    \/ \E w \in Workers : ConfirmStart(w)
    \/ \E w \in Workers : ConfirmReceipt(w)
    \/ \E w \in Workers : ConfirmGetAgent(w)
    \/ \E w \in Workers : ConfirmUpsert(w)

SpecConcurrent == InitConcurrent /\ [][NextConcurrent]_vars

(***************************************************************************)
(* Properties of confirmations side by side                                *)
(***************************************************************************)
Quiescent == \A w \in Workers : workers[w].pc = "done"

\* Positions in the log of the upserts that went through.
AppliedUpserts ==
    {i \in 1..Len(calls) : calls[i].call.fn = "upsert" /\ calls[i].call.ok}

LastAppliedUpsert(key) ==
    LET S == {i \in AppliedUpserts : calls[i].call.row.agent_id = key} IN
    CHOOSE i \in S : \A j \in S : j <= i

\* The getAgent answer a worker's upsert was built from.
ReadOf(w) == workers[w].tuple.val

HasAbi(a) == a.some /\ Len(a.val) > 0

\* The requests ask for the same thing and read the same chain record.
DuplicateWrites ==
    \A i, j \in AppliedUpserts :
        LET a == workers[calls[i].w].abi
            b == workers[calls[j].w].abi
        IN  /\ HasAbi(a) = HasAbi(b)
            /\ HasAbi(a) => a = b
            /\ ReadOf(calls[i].w) = ReadOf(calls[j].w)

\* C13 as stated: once all confirmations are done the cache holds one record
\* per identifier and its content does not depend on the order of the
\* upserts: it is the row of every upsert applied for that identifier.
C13_OrderIndependent ==
    Quiescent =>
        \A i \in AppliedUpserts :
            /\ calls[i].call.row.agent_id \in DOMAIN agents_cache
            /\ agents_cache[calls[i].call.row.agent_id] = calls[i].call.row

\* C13, amended: once all confirmations are done the cache holds exactly one
\* record per identifier an upsert was applied for, and it is the row of the
\* upsert applied last: the chain record that worker read, with that
\* request's abi.  When the requests carry the same abi (an empty abi
\* counting as none) and read the same chain record, that is the row of every
\* upsert, whatever their order.
C13_LastWriterWins ==
    Quiescent =>
        /\ DOMAIN agents_cache = {calls[i].call.row.agent_id : i \in AppliedUpserts}
        /\ \A key \in DOMAIN agents_cache :
              LET last == calls[LastAppliedUpsert(key)]
                  t == ReadOf(last.w)
                  a == workers[last.w].abi
              IN  /\ agents_cache[key] = last.call.row
                  /\ agents_cache[key] =
                        [agent_id |-> key, target_address |-> t.targetContract,
                         owner |-> t.owner, name |-> t.name, description |-> "",
                         config_ipfs |-> t.configIPFS, active |-> t.active,
                         abi |-> IF HasAbi(a) THEN a ELSE None]
        /\ DuplicateWrites =>
              \A i \in AppliedUpserts :
                  agents_cache[calls[i].call.row.agent_id] = calls[i].call.row

\* Two confirmations of the same registration, abi absent in one and empty
\* in the other, each read the chain record and both wrote it.
C13_Witness ==
    /\ Quiescent
    /\ AppliedUpserts = {1, 2}
    /\ calls[1].w # calls[2].w
    /\ workers[calls[1].w].abi = None
    /\ workers[calls[2].w].abi = Some(<<>>)
    /\ DuplicateWrites
    /\ Cardinality(DOMAIN agents_cache) = 1
    /\ agents_cache[calls[1].call.row.agent_id] = calls[1].call.row

(***************************************************************************)
(* Properties of resolving an agent against the cache                      *)
(***************************************************************************)
\* The cache holds a record for the agent the identifier denotes.
Cached(cache, agent_id) ==
    \E k \in DOMAIN cache : agent_id_bytes(k) = agent_id_bytes(agent_id)

\* C14: resolving an agent consults the cache first: on a hit it makes no
\* registry call, and on a miss it calls the registry and, when that returns
\* a record, writes the record to the cache, so that the next resolve is a
\* hit.
C14_CacheFirstResolve ==
    [][(req.op = "get_agent" /\ resp = Pending /\ resp' # Pending) =>
          IF Cached(agents_cache, req.agent_id)
          THEN calls' = <<>>
          ELSE (resp'.kind = "agent" => Cached(agents_cache', req.agent_id))]_vars

\* Two spellings of one identifier: they normalize to the same bytes.
SameAgent(a, b) ==
    /\ agent_id_bytes(a).ok
    /\ agent_id_bytes(b).ok
    /\ agent_id_bytes(a).bytes = agent_id_bytes(b).bytes

\* C15: spellings that normalize to the same 32 bytes denote the same agent
\* everywhere: update_agent_address finds the record confirm_agent_registration
\* cached for the agent under whichever spelling it is given, and get_agent
\* answers every spelling with a record of the same identifier.
C15_SpellingsDenoteSameAgent ==
    /\ (req.op = "update_agent_address" /\ resp # Pending /\ calls # <<>>) =>
          ((\E k \in DOMAIN agents_cache : SameAgent(k, req.agent_id)) => calls[1].found)
    /\ (req.op = "get_agent" /\ resp # Pending /\ resp.kind = "agent") =>
          \A other \in ResolveIds :
              SameAgent(other, req.agent_id) =>
                  \A o \in get_agent(registry, other) :
                      o.result.some => o.result.val.id = resp.agent.id

(***************************************************************************)
(* Properties of the read path's route, errors and data                    *)
(***************************************************************************)
\* The chat endpoint resolved a read function and executed the read: it
\* answered with data, with "Query failed" or with "Decode failed".
ReadAnswered ==
    /\ ChatDone
    /\ op.some
    /\ op.val.fn # NoFn
    /\ \/ resp.kind = "query" /\ resp.data.some
       \/ resp.kind = "error" /\ resp.status = 400
       \/ resp.kind = "error" /\ resp.detail = "Decode failed"

\* C16 as stated: a read is routed by the operation's classification:
\* through the hub's queryTarget when the target is hub-mediated, straight
\* to the target contract when it is not.
C16_RouteFollowsClassification ==
    ReadAnswered =>
        LET target == calls[1].ret.val.targetContract IN
        IF "hub-aware" \in detect_contract_type(target)
        THEN calls[Len(calls)].fn = "queryTarget"
        ELSE calls[Len(calls)].fn = "call_target"

\* C16, amended: every read the chat endpoint executes goes through the
\* hub's queryTarget as a simulated call from the caller's address, with the
\* agent identifier, the agent's target address from the registry and the
\* calldata selector + encoded arguments, whatever the type of the target
\* contract; nothing is sent straight to the target and nothing is
\* broadcast.
C16_EveryReadThroughHub ==
    ReadAnswered =>
        /\ Len(calls) = 2
        /\ calls[1].fn = "getAgent"
        /\ calls[2].fn = "queryTarget"
        /\ calls[2].id = agent_id_bytes(req.agent_id).bytes
        /\ calls[2].target = calls[1].ret.val.targetContract
        /\ calls[2].data =
              selector(op.val.fn)
                  \o (IF op.val.arg_types = <<>> THEN <<>>
                      ELSE Rep(0, WordLen - AddressLen)
                               \o address_bytes(req.userAddress).bytes)
        /\ calls[2].from = req.userAddress

C16_Witness ==
    /\ ReadAnswered
    /\ req.agent_id = HexIdB
    /\ calls[1].ret.val.targetContract = TargetB
    /\ detect_contract_type(TargetB) = {"regular"}
    /\ calls[2].fn = "queryTarget"
    /\ calls[2].target = TargetB
    /\ resp.kind = "query"


\* ---- C17 ----
\* The last call of a read request answered after the hub was asked.
LastQuery == calls[Len(calls)]

\* The request is answered and the last thing the handler did was ask the hub.
HubAsked ==
    /\ ChatDone
    /\ op.some
    /\ calls # <<>>
    /\ LastQuery.fn = "queryTarget"

QueryRejected == HubAsked /\ ~LastQuery.ok

DecodeFailed ==
    /\ HubAsked
    /\ LastQuery.ok
    /\ Len(LastQuery.ret.raw) < Len(op.val.out_types)

\* C17: a rejected simulated call is answered with the query error that
\* carries the node's reason, and no data; returned bytes that do not decode
\* are answered with the decode error; bytes that decode are answered with
\* data. The two errors differ and neither is a successful response.
C17_QueryAndDecodeErrorsDistinct ==
    HubAsked =>
        /\ QueryRejected =>
              /\ resp = HttpError(400, query_failed(LastQuery.ret.reason))
              /\ resp # HttpError(500, "Decode failed")
        /\ DecodeFailed => resp = HttpError(500, "Decode failed")
        /\ (LastQuery.ok /\ ~DecodeFailed) => resp.kind = "query"

C17_Witness ==
    /\ QueryRejected
    /\ LastQuery.ret.reason = "execution reverted"
    /\ resp.detail = "Query failed: execution reverted"

C17_WitnessDecode == DecodeFailed /\ resp.status = 500

\* ---- C18 ----
\* The number a string of decimal digits writes; -1 when the string is empty,
\* holds something else than digits, or starts with a needless zero.
RECURSIVE digits_value(_)
digits_value(s) ==
    IF Len(s) = 0 THEN 0
    ELSE 10 * digits_value(SubSeq(s, 1, Len(s) - 1))
         + (CHOOSE d \in 0..9 : Digits[d + 1] = s[Len(s)])

decimal_value(s) ==
    IF s = <<>> \/ (\E i \in 1..Len(s) : \A d \in 1..10 : Digits[d] # s[i])
       \/ (Len(s) > 1 /\ s[1] = "0")
    THEN -1
    ELSE digits_value(s)

\* A read request answered with data.
ReadSucceeded == HubAsked /\ resp.kind = "query" /\ resp.data.some

\* C18: the data of a successful read has one entry per key declared for the
\* resolved function, in declaration order, entry i holding the decimal
\* string of the value returned at position i; getStakeInfo yields
\* stakedAmount, rewards, stakingDuration, apy for positions 0..3.
C18_DataKeysInOrderAsDecimalStrings ==
    ReadSucceeded =>
        LET data == resp.data.val
            raw == LastQuery.ret.raw
        IN  /\ Len(data) = Len(op.val.data_keys)
            /\ Len(data) = Len(op.val.out_types)
            /\ \A i \in 1..Len(data) :
                  /\ data[i].key = op.val.data_keys[i]
                  /\ data[i].value.some
                  /\ decimal_value(data[i].value.val) = raw[i]
            /\ op.val.fn = "getStakeInfo(address)" =>
                  [i \in 1..Len(data) |-> data[i].key]
                      = <<"stakedAmount", "rewards", "stakingDuration", "apy">>

C18_Witness ==
    /\ ReadSucceeded
    /\ op.val.fn = "getStakeInfo(address)"
    /\ LastQuery.ret.raw = <<1500, 25, 86400, 12>>
    /\ resp.data.val[1] = [key |-> "stakedAmount", value |-> Some(<<"1", "5", "0", "0">>)]
    /\ resp.data.val[3] = [key |-> "stakingDuration",
                           value |-> Some(<<"8", "6", "4", "0", "0">>)]

\* ---- C19 ----
\* A registration preview was asked for and the unsigned transaction was built.
PreviewBuilt ==
    /\ req.op = "register_agent"
    /\ resp # Pending
    /\ Len(calls) = 3
    /\ calls[2].fn = "estimate_gas"
    /\ calls[3].fn = "get_gas_price"

\* C19: once the registerAgent transaction is built the preview is returned
\* with success = true whether or not the estimate and the gas price calls
\* fail; gasEstimate is the node's estimate when the estimate call succeeds
\* and "500000" when it fails, never "0"; a failed gas price call leaves the
\* price None.
C19_GasFailuresDoNotAbortPreview ==
    PreviewBuilt =>
        /\ resp.kind = "register"
        /\ resp.success
        /\ resp.requiresTransaction
        /\ resp.transaction.gasEstimate
              = (IF calls[2].ok THEN str_int(NodeGasEstimate)
                 ELSE <<"5", "0", "0", "0", "0", "0">>)
        /\ resp.transaction.gasEstimate # <<"0">>
        /\ ~calls[3].ok => calls[3].gas_price = None

C19_Witness ==
    /\ PreviewBuilt
    /\ ~calls[2].ok
    /\ ~calls[3].ok
    /\ resp.success
    /\ resp.transaction.gasEstimate = <<"5", "0", "0", "0", "0", "0">>

(***************************************************************************)
(* chat.py POST /{agent_id}/confirm: confirm_transaction_doc_shape         *)
(***************************************************************************)
\* timeout=30 of the wait, in seconds.
ConfirmTimeout == 30

\* client.wait_for_transaction(tx_hash, timeout) after `seconds` seconds of
\* waiting: the node fails and it raises; or it returns the receipt the node
\* has; or, the timeout reached, it returns None; or it waits on.
wait_for_transaction(rcpts, tx, timeout, seconds) ==
    {[done |-> TRUE, ok |-> FALSE, ret |-> None]}
        \cup
        (IF rcpts[tx].some THEN {[done |-> TRUE, ok |-> TRUE, ret |-> rcpts[tx]]}
         ELSE IF seconds >= timeout THEN {[done |-> TRUE, ok |-> TRUE, ret |-> None]}
         ELSE {[done |-> FALSE, ok |-> TRUE, ret |-> None]})

\* Mutant: whatever receipt arrives counts as a success.
confirm_response_any_receipt(tx_hash, w) ==
    IF ~w.ok THEN HttpError(500, "internal")
    ELSE IF ~w.ret.some
    THEN [kind |-> "confirm_tx", success |-> FALSE, response |-> "Transaction pending...",
          txHash |-> tx_hash]
    ELSE [kind |-> "confirm_tx", success |-> TRUE, response |-> "Transaction succeeded",
          txHash |-> tx_hash,
          blockNumber |-> Some(str_int(w.ret.val.blockNumber)),
          gasUsed |-> Some(str_int(w.ret.val.gasUsed))]

\* confirm_transaction_doc_shape once the wait is over: 500 when the wait
\* raised, the pending shape without a receipt, else success from the
\* receipt's status with block number and gas used as strings.
confirm_response(tx_hash, w) ==
    IF ~w.ok THEN HttpError(500, "internal")
    ELSE IF ~w.ret.some
    THEN [kind |-> "confirm_tx", success |-> FALSE, response |-> "Transaction pending...",
          txHash |-> tx_hash]
    ELSE LET success == w.ret.val.status = 1 IN
         [kind |-> "confirm_tx", success |-> success,
          response |-> IF success THEN "Transaction succeeded" ELSE "Transaction failed",
          txHash |-> tx_hash,
          blockNumber |-> Some(str_int(w.ret.val.blockNumber)),
          gasUsed |-> Some(str_int(w.ret.val.gasUsed))]

ConfirmTxRequests ==
    {[op |-> "confirm_tx", agent_id |-> i, txHash |-> t, userAddress |-> UserA] :
        i \in {Erc20_2, Ghost}, t \in TxHashes}

ReceiveConfirmTx ==
    /\ req = Idle
    /\ \E r \in ConfirmTxRequests : req' = r
    /\ resp' = Pending
    /\ waited' = 0
    /\ UNCHANGED <<workers, registry, receipts, agents_cache, action, op, calls>>

\* The chain includes the transaction at any moment, a waiting request or not.
IncludeTx ==
    /\ \E t \in TxHashes :
          /\ ~receipts[t].some
          /\ \E r \in ReceiptsOf(t) : receipts' = [receipts EXCEPT ![t] = Some(r)]
    /\ UNCHANGED <<waited, workers, registry, agents_cache, req, action, op, calls, resp>>

\* One more second of the wait goes by without a receipt.
WaitForTransaction ==
    /\ Handling("confirm_tx")
    /\ \E w \in wait_for_transaction(receipts, req.txHash, ConfirmTimeout, waited) :
          ~w.done
    /\ waited' = waited + 1
    /\ UNCHANGED <<workers, registry, receipts, agents_cache, req, action, op, calls, resp>>

\* The handler's step out of the wait, the wait having returned (ok) or
\* raised.
ConfirmAnswer(ok) ==
    /\ Handling("confirm_tx")
    /\ \E w \in wait_for_transaction(receipts, req.txHash, ConfirmTimeout, waited) :
          /\ w.done
          /\ w.ok = ok
          /\ calls' = <<[fn |-> "wait_for_transaction", tx |-> req.txHash,
                         timeout |-> ConfirmTimeout, seconds |-> waited,
                         ok |-> w.ok, ret |-> w.ret]>>
          /\ resp' = confirm_response(req.txHash, w)
    /\ UNCHANGED <<waited, workers, registry, receipts, agents_cache, req, action, op>>

\* The wait is over and the handler answers.
ConfirmTransactionDocShape == ConfirmAnswer(TRUE)

\* The node fails during the wait; the handler answers 500.
ConfirmTransactionRaises == ConfirmAnswer(FALSE)

NextWait ==
    \/ ReceiveConfirmTx
    \/ IncludeTx
    \/ WaitForTransaction
    \/ ConfirmTransactionDocShape
    \/ ConfirmTransactionRaises
    \/ Reply

\* The event loop runs a handler that can run: seconds go by and a finished
\* wait is answered.
SpecWait ==
    /\ Init
    /\ [][NextWait]_vars
    /\ WF_vars(WaitForTransaction)
    /\ WF_vars(ConfirmTransactionDocShape)

(***************************************************************************)
(* Properties of the bounded wait                                          *)
(***************************************************************************)
\* ---- C20 ----
ConfirmTxAnswered ==
    /\ req.op = "confirm_tx"
    /\ resp # Pending
    /\ calls # <<>>
    /\ calls[1].fn = "wait_for_transaction"
    /\ calls[1].ok

PendingShape(tx_hash) ==
    [kind |-> "confirm_tx", success |-> FALSE, response |-> "Transaction pending...",
     txHash |-> tx_hash]

\* The wait never lasts longer than the ceiling; without a receipt the answer
\* comes exactly at the ceiling and is the pending shape; with a receipt
\* success is true exactly when its status is 1.
BoundedWait ==
    /\ waited <= 30
    /\ ConfirmTxAnswered =>
          /\ calls[1].seconds <= 30
          /\ ~calls[1].ret.some =>
                /\ calls[1].seconds = 30
                /\ resp = PendingShape(req.txHash)
          /\ calls[1].ret.some =>
                /\ resp.kind = "confirm_tx"
                /\ resp.success <=> (calls[1].ret.val.status = 1)

\* C20: confirm_transaction_doc_shape waits at most 30 s for the receipt; with
\* no receipt by then it returns success = false, "Transaction pending...";
\* with a receipt success is true exactly when the receipt status is 1; and
\* every confirm request is eventually answered.
C20_BoundedWaitAlwaysReturns ==
    /\ []BoundedWait
    /\ Handling("confirm_tx") ~> (req.op = "confirm_tx" /\ resp # Pending)

C20_Witness ==
    /\ ConfirmTxAnswered
    /\ ~calls[1].ret.some
    /\ waited = 30
    /\ resp.success = FALSE
    /\ resp.response = "Transaction pending..."

C20_WitnessFailedReceipt ==
    /\ ConfirmTxAnswered
    /\ calls[1].ret.some
    /\ calls[1].ret.val.status = 0
    /\ calls[1].seconds > 0
    /\ ~resp.success

(***************************************************************************)
(* Properties of the status view, the fail-closed checks and confirm       *)
(***************************************************************************)
\* ---- C21 ----
\* get_transaction_status answered "success" or "failed": the endpoint's own
\* fetch, the first call, returned a receipt.
StatusFromReceipt ==
    /\ req.op = "status"
    /\ resp # Pending
    /\ resp.kind = "status"
    /\ resp.status \in {"success", "failed"}

\* C21: whenever get_transaction_status returns status "success" or
\* "failed", the returned events are exactly the FunctionExecuted events of
\* the logs of the receipt the status, block number and gas used were taken
\* from.
C21_EventsOfTheSameReceipt ==
    StatusFromReceipt =>
        LET receipt == calls[1].ret.val IN
        /\ resp.status = (IF receipt.status = 1 THEN "success" ELSE "failed")
        /\ resp.block_number = Some(receipt.blockNumber)
        /\ resp.gas_used = Some(receipt.gasUsed)
        /\ LogIndexes(resp.events.val)
               = ExtractedFrom(ReturnedLogs, {"FunctionExecuted"})

\* ---- C22 ----
ValidationAnswered == req.op = "validate_transaction" /\ resp # Pending

ActiveAnswered == req.op = "is_agent_active" /\ resp # Pending

\* The one chain call of the request went through and the contract said yes.
SaidYes(fn) ==
    /\ Len(calls) = 1
    /\ calls[1].fn = fn
    /\ calls[1].ok
    /\ calls[1].ret = Some(TRUE)

\* "0x" followed by something that is no even-length string of hex digits.
Malformed(x) ==
    /\ startswith_0x(x)
    /\ \/ Len(x) % 2 = 1
       \/ \E i \in 3..Len(x) : ~IsHexChar(x[i])

\* C22: validate_transaction answers true only if the hub's
\* validateTransaction call completed and returned true, is_agent_active
\* answers true only if the registry's isAgentActive call completed and
\* returned true; with the contract not loaded, a malformed identifier or
\* selector, or a node error the answer is false; neither ever raises.
C22_ChecksFailClosed ==
    /\ ValidationAnswered =>
          /\ resp.kind = "validation"
          /\ resp.valid \in BOOLEAN
          /\ resp.valid <=> SaidYes("validateTransaction")
          /\ (Malformed(req.agent_id) \/ Malformed(req.function_selector)) =>
                (~resp.valid /\ calls = <<>>)
    /\ ActiveAnswered =>
          /\ resp.kind = "active"
          /\ resp.value \in BOOLEAN
          /\ resp.value <=> SaidYes("isAgentActive")
          /\ Malformed(req.agent_id) => (~resp.value /\ calls = <<>>)

\* The node fails the hub call: the validation is answered false.
C22_Witness ==
    /\ ValidationAnswered
    /\ Len(calls) = 1
    /\ ~calls[1].ok
    /\ resp.valid = FALSE

C22_WitnessMalformed ==
    /\ ActiveAnswered
    /\ Malformed(req.agent_id)
    /\ resp.value = FALSE

C22_WitnessYes == ValidationAnswered /\ SaidYes("validateTransaction") /\ resp.valid

\* ---- C23 ----
\* confirm_agent_registration answered: the event was found and the getAgent
\* read failed.
ChainReadFailed ==
    /\ req.op = "confirm"
    /\ ReceiptReturned
    /\ FirstAgentRegistered(ReturnedLogs) # 0
    /\ Len(calls) >= 2
    /\ calls[2].fn = "getAgent"
    /\ ~calls[2].ok

UpsertAttempted == \E i \in 1..Len(calls) : calls[i].fn = "upsert"

\* Answered confirmations: with the event found and the chain read failed no
\* upsert is attempted and the answer is success = true, the extracted
\* agentId, agent = null; a non-null agent and an attempted upsert occur only
\* after a chain read that succeeded.
ConfirmFrame ==
    /\ ChainReadFailed =>
          /\ ~UpsertAttempted
          /\ resp = [kind |-> "confirm", success |-> TRUE,
                     agentId |-> Hex0x \o hex(ReturnedLogs[
                                     FirstAgentRegistered(ReturnedLogs)].args.agentId),
                     txHash |-> req.txHash, agent |-> None]
    /\ (req.op = "confirm" /\ resp # Pending) =>
          /\ (resp.kind = "confirm" /\ resp.success /\ resp.agent.some) =>
                AgentReadFromChain
          /\ UpsertAttempted => AgentReadFromChain

\* C23: in confirm_agent_registration, when the AgentRegistered event is
\* found and the getAgent read fails, the cache is left as it was, no upsert
\* is attempted and the response is success = true with the extracted
\* agentId and agent = null; success = true with a non-null agent, and an
\* attempted upsert, occur only when the chain read succeeded.
C23_FailedChainReadLeavesCache ==
    /\ []ConfirmFrame
    /\ [][(Handling("confirm") /\ resp' # Pending /\ ChainReadFailed')
              => agents_cache' = agents_cache]_vars
    /\ [][(Handling("confirm") /\ agents_cache' # agents_cache)
              => (AgentReadFromChain' /\ UpsertAttempted')]_vars

\* A second confirmation of a cached agent whose chain read fails: the row
\* of the first one is still there.
C23_Witness ==
    /\ ChainReadFailed
    /\ resp.success
    /\ resp.agent = None
    /\ resp.agentId \in DOMAIN agents_cache
    /\ ~UpsertAttempted
=============================================================================
